---- MODULE Spec2Model ----
(***************************************************************************)
(* Model of HelmChart.push_images_to_ecr and _recover_push_no_platform     *)
(* (src/chart.py): the tiered image transfer of airgap-charts.             *)
(*                                                                         *)
(* One action per step of the code.  Every external call (docker, the ECR  *)
(* client, the aws CLI) is a nondeterministic choice among the outcomes    *)
(* the call can have: success, failure (run_docker returns None) and,      *)
(* where the code does not swallow it, an exception.                       *)
(***************************************************************************)
EXTENDS Integers, Sequences, FiniteSets, TLC

\* ---------------------------------------------------------------- bounds
NumImages == 2
MaxRetry == 2

\* ------------------------------------------------------- image references
\* An image reference "seg/seg/.../name:tag" is a record of its path
\* segments and its tag ("" when the reference carries no ':tag').
ImageRefs ==
    { [segs |-> <<"quay.io", "team", "app">>, tag |-> "1.0"],
      [segs |-> <<"ghcr.io", "org", "app">>,  tag |-> "1.0"],
      [segs |-> <<"docker.io", "web">>,       tag |-> ""] }

\* image_name = public_repo.rsplit('/', 1)[-1]
ImageName(public_repo) ==
    [name |-> public_repo.segs[Len(public_repo.segs)], tag |-> public_repo.tag]

\* private_image = f"{private_ecr_url}/{repo_path}/{image_name}"; the
\* registry url and the repo path are the same for every image of a chart.
PrivateImage(public_repo) ==
    [segs |-> <<"ecr", "chart", ImageName(public_repo).name>>,
     tag  |-> ImageName(public_repo).tag]

\* variant: the image name is taken to carry a tag always
ImageTag_Always(public_repo) == "latest"

\* image_tag = image_name.split(":")[1] if ":" in image_name else None
ImageTag(public_repo) == ImageName(public_repo).tag

\* variant: the two explicit platforms are tried in the other order
PlatformSequence_Arm64First(pref) ==
    IF pref = "auto" THEN <<"none", "linux/arm64", "linux/amd64">> ELSE <<pref>>

\* sequences = [None, "linux/amd64", "linux/arm64"] if pref == "auto" else [pref]
PlatformSequence(pref) ==
    IF pref = "auto" THEN <<"none", "linux/amd64", "linux/arm64">> ELSE <<pref>>

\* _pull_image_with_platform_logic: outs[k] is what the k-th entry of the
\* sequence does: the pull fails, the pull succeeds but the image reports no
\* platform, the pull succeeds with a concrete platform, or docker raises.
RECURSIVE PullLogicFrom(_, _, _)
PullLogicFrom(seq, outs, k) ==
    IF k > Len(seq) THEN "false"
    ELSE IF outs[k] = "ok" THEN "true"
    ELSE IF outs[k] = "raise" THEN "raise"
    ELSE PullLogicFrom(seq, outs, k + 1)

PullImageWithPlatformLogic(pref, outs) == PullLogicFrom(PlatformSequence(pref), outs, 1)

PullOutcomes == {"pullfail", "noplatform", "ok", "raise"}

NoDup(s) == \A i, j \in 1..Len(s) : i # j => s[i] # s[j]

\* All sequences without repetition over S of length 0..n (the image list is
\* built from a set, so it holds no reference twice)
RECURSIVE DistinctSeqs(_, _)
DistinctSeqs(S, n) ==
    IF n = 0 THEN { <<>> }
    ELSE LET shorter == DistinctSeqs(S, n - 1)
         IN  shorter \cup { t \in { Append(s, x) : s \in shorter, x \in S } : NoDup(t) }

SeqContains(s, x) == \E i \in 1..Len(s) : s[i] = x

\* ------------------------------------------------------------------ state
VARIABLES
    public_addon_chart_images,        \* list of source references
    private_addon_chart_images,       \* list of destination references
    failed_push_addon_chart_images,   \* list of destinations recorded as failed
    private_ecr_authenticated,        \* HelmChart.private_ecr_authenticated
    platform,                         \* getattr(self, "platform", "auto")
    retry_count,                      \* argument of push_images_to_ecr
    idx,                              \* position of the for loop over the images
    pc,                               \* position inside the loop body
    attempt,                          \* for attempt in range(retry_count)
    attempted_recovery,               \* local of push_images_to_ecr
    rc,                               \* frame of _recover_push_no_platform
    tar_exists,                       \* tmp-image.tar is on disk
    remote_tags,                      \* tags the destination registry holds
    raised_at,                        \* step whose exception left push_images_to_ecr
    pushed,                           \* per image: a push of its destination succeeded
    obs,                              \* observations about the current image
    nrm,                              \* frame of _normalize_image_host
    gci,                              \* frame of get_chart_images
    plf,                              \* frame of _pull_image_with_platform_logic
    dgf,                              \* frame of the repo-digest lookup of Tier 2
    ovl,                              \* frame of find_images / extract_chart_values_image
    chf,                              \* frame of process_helm_chart
    ext,                              \* frame of an external command of HelmChart
    run,                              \* frame of main of main.py
    ath,                              \* the registry logins of the charts of main
    cln,                              \* frame of main of ecr_cleanup.py
    pul                               \* frame of pulling_chart_images

\* the frames of the functions that are modelled by specifications of their own
moreVars == << ext, run, ath, cln, pul >>

auxVars == << nrm, gci, plf, dgf, ovl, chf, moreVars >>

vars == << public_addon_chart_images, private_addon_chart_images,
           failed_push_addon_chart_images, private_ecr_authenticated, platform,
           retry_count, idx, pc, attempt, attempted_recovery, rc, tar_exists,
           remote_tags, raised_at, pushed, obs, auxVars >>

\* a function that is not running has no frame
NoCall == [fn |-> "none"]

AuxIdle ==
    /\ nrm = NoCall
    /\ gci = NoCall
    /\ plf = NoCall
    /\ dgf = NoCall
    /\ ovl = NoCall
    /\ chf = NoCall
    /\ ext = NoCall
    /\ run = NoCall
    /\ ath = NoCall
    /\ cln = NoCall
    /\ pul = NoCall

MoreIdle ==
    /\ ext = NoCall
    /\ run = NoCall
    /\ ath = NoCall
    /\ cln = NoCall
    /\ pul = NoCall

Platforms == {"auto", "linux/arm64"}

NoFrame == [site |-> 0, digest_ref |-> FALSE, t2step |-> "none", t3 |-> FALSE, ret |-> "none"]

NoObs ==
    [ directFail  |-> 0,      \* direct pushes that returned failure
      recRun      |-> FALSE,  \* _recover_push_no_platform was invoked
      recFail     |-> FALSE,  \* an invocation of _recover_push_no_platform returned False
      t3Run       |-> FALSE,  \* the save/load fallback was entered
      t3Fail      |-> FALSE,  \* it ended without a successful push
      dels        |-> 0,      \* batch_delete_image calls
      delAt       |-> -1,     \* attempt in which the last one was issued
      delAbsent   |-> FALSE,  \* a deletion was issued for a tag the registry did not hold
      recAfterDel |-> 0,      \* recoveries started after the deletion step
      pushAfterDel|-> 0,      \* direct pushes after the deletion step
      failAt      |-> -1,     \* attempt of the last failed direct push
      lastStep    |-> FALSE,  \* the final-fallback step (line 1162) was reached
      pushOk      |-> FALSE,  \* a docker push of the destination succeeded
      opAfterOk   |-> FALSE,  \* a docker/ECR operation was issued after that
      failAfterOk |-> FALSE,  \* the destination was recorded as failed after that
      recorded    |-> 0,      \* times this image was appended to the failed list
      pushes      |-> 0,      \* direct pushes issued
      recs        |-> 0,      \* invocations of _recover_push_no_platform
      waits       |-> 0,      \* time.sleep(retry_delay) calls
      waitAfterOk |-> FALSE,  \* a wait was issued after a successful push
      waitAtLast  |-> FALSE,  \* a wait was issued in the last attempt
      noPlatform  |-> FALSE,  \* no concrete platform could be obtained (1059-1068)
      anyOp       |-> FALSE,  \* a docker tag/push/save/load or a deletion was issued
      repoCall    |-> FALSE,  \* describe_repositories / create_repository was called
      tarLeft     |-> FALSE ] \* _recover_push_no_platform returned leaving the archive

public_repo == public_addon_chart_images[idx]
private_image == PrivateImage(public_repo)
NImages == Len(public_addon_chart_images)

Init ==
    /\ public_addon_chart_images \in { s \in DistinctSeqs(ImageRefs, NumImages) : Len(s) >= 1 }
    /\ private_addon_chart_images = <<>>
    /\ failed_push_addon_chart_images = <<>>
    /\ private_ecr_authenticated \in BOOLEAN
    /\ platform \in Platforms
    /\ retry_count \in 0..MaxRetry
    /\ idx = 1
    /\ pc = "image"
    /\ attempt = 0
    /\ attempted_recovery = FALSE
    /\ rc = NoFrame
    /\ tar_exists = FALSE
    /\ remote_tags \in { {}, { PrivateImage(r) : r \in ImageRefs } }
    /\ raised_at = "none"
    /\ pushed = [i \in 1..NumImages |-> FALSE]
    /\ obs = NoObs
    /\ AuxIdle

\* ------------------------------------------------------ shared transitions
RecoverPcs == {"t2_pull", "t2_tag", "t2_push", "t3_save", "t3_load", "t3_tag",
               "t3_push", "t3_finally", "rec_ret"}

Outcomes == {"ok", "fail", "raise"}

\* a docker/ECR operation (pull, tag, push, save, load, delete) is issued
Op(o) == [o EXCEPT !.opAfterOk = @ \/ o.pushOk, !.anyOp = TRUE]

\* self.failed_push_addon_chart_images.append(private_image)
Recorded(o) == [o EXCEPT !.recorded = @ + 1, !.failAfterOk = @ \/ o.pushOk]

\* a docker push of private_image succeeded
PushSucceeded(o) == [o EXCEPT !.pushOk = TRUE]

\* variants of the guard of line 1158: an off-by-one that ends the attempts
\* one early, and one that compares attempt instead of attempt + 1
HasNextAttempt_EndsEarly(a, n) == a + 2 < n

HasNextAttempt_NoPlusOne(a, n) == a < n

\* if attempt + 1 < retry_count (line 1158): another attempt follows
HasNextAttempt(a, n) == a + 1 < n

\* variant: the one-time recovery is never taken
NeedsFirstRecovery_Never(ar) == FALSE

\* variant: the recovery is taken after every failed direct push
NeedsFirstRecovery_Always(ar) == TRUE

\* if not attempted_recovery (line 1143): the one-time recovery right after
\* a failed direct push
NeedsFirstRecovery(ar) == ~ar

\* variant: the fallback reports failure whatever its push returned
RecoverResult_AlwaysFalse(push_ok) == "false"

\* return push_ok2 (line 452): the fallback reports what its push returned
RecoverResult(push_ok) == IF push_ok THEN "true" ELSE "false"

\* entering _recover_push_no_platform from call site 1 (line 1145),
\* 2 (line 1154) or 3 (line 1173)
CallRecover(site, o) ==
    /\ pc' = "t2_pull"
    /\ rc' = [NoFrame EXCEPT !.site = site]
    /\ obs' = [o EXCEPT !.recRun = TRUE, !.recs = @ + 1,
                        !.recAfterDel = @ + (IF o.lastStep THEN 1 ELSE 0)]

\* variant: the handler swallows the exception and falls through to the
\* end of the attempt without recording the image
ExceptHandler_Swallowed(o) ==
    /\ failed_push_addon_chart_images' = failed_push_addon_chart_images
    /\ obs' = o
    /\ attempt' = attempt
    /\ pc' = "after"

\* variant: no handler around the attempt, the exception leaves the function
ExceptHandler_Propagates(o) ==
    /\ failed_push_addon_chart_images' = failed_push_addon_chart_images
    /\ obs' = o
    /\ attempt' = attempt
    /\ pc' = "raised"

\* except Exception as e (lines 1178-1180): record the image, go on with the
\* next iteration of the attempt loop
ExceptHandler(o) ==
    /\ failed_push_addon_chart_images' = Append(failed_push_addon_chart_images, private_image)
    /\ obs' = Recorded(o)
    /\ attempt' = attempt + 1
    /\ pc' = "loop"

\* an exception that no handler of push_images_to_ecr catches
Propagate(step) ==
    /\ pc' = "raised"
    /\ raised_at' = step

\* ------------------------------------------------- push_images_to_ecr
\* variant: the destination is appended only for an image that reports a
\* platform
RecordDestination_WhenEffective(list, dst, effective) ==
    IF effective THEN Append(list, dst) ELSE list

\* line 1055: the destination is appended before the platform inspection
\* of line 1057 and before any continue
RecordDestination(list, dst, effective) == Append(list, dst)

\* lines 1050-1058: destination reference, first platform inspection
BeginImage ==
    /\ pc = "image"
    /\ obs' = NoObs
    /\ \E effective \in BOOLEAN :
          /\ private_addon_chart_images' =
                RecordDestination(private_addon_chart_images, private_image, effective)
          /\ pc' = IF effective THEN "tag" ELSE "pull_logic"
    /\ UNCHANGED << public_addon_chart_images, failed_push_addon_chart_images,
                    private_ecr_authenticated, platform, retry_count, idx, attempt,
                    attempted_recovery, rc, tar_exists, remote_tags, raised_at, pushed >>

\* variant: the image is not inspected again after the re-pull
AfterRepull_TrustsPull(r, effective) ==
    IF r = "true" THEN "tag" ELSE "skip"

\* lines 1060-1068: the image goes on to the tagging only when the re-pull
\* returned True and the second inspection reports a platform
AfterRepull(r, effective) ==
    IF r = "true" /\ effective THEN "tag" ELSE "skip"

\* lines 1059-1068: re-pull with the platform logic, inspect again
PullLogic ==
    /\ pc = "pull_logic"
    /\ \E outs \in [1..Len(PlatformSequence(platform)) -> PullOutcomes], effective \in BOOLEAN :
          LET r == PullImageWithPlatformLogic(platform, outs) IN
          LET o == [obs EXCEPT !.noPlatform = (r = "false") \/ (r = "true" /\ ~effective)] IN
          IF r = "raise"
          THEN /\ Propagate("pull_logic")
               /\ UNCHANGED << failed_push_addon_chart_images, obs >>
          ELSE IF AfterRepull(r, effective) = "tag"
          THEN /\ pc' = "tag"
               /\ obs' = o
               /\ UNCHANGED << failed_push_addon_chart_images, raised_at >>
          ELSE /\ failed_push_addon_chart_images' =
                     Append(failed_push_addon_chart_images, private_image)
               /\ obs' = Recorded(o)
               /\ pc' = "next"
               /\ UNCHANGED raised_at
    /\ UNCHANGED << public_addon_chart_images, private_addon_chart_images,
                    private_ecr_authenticated, platform, retry_count, idx, attempt,
                    attempted_recovery, rc, tar_exists, remote_tags, pushed >>

\* lines 1069-1110: docker tag, and the re-pull/re-tag when the private tag
\* reports no platform; run_docker results are ignored, exceptions are not caught
TagImage ==
    /\ pc = "tag"
    /\ \E tag \in {"ok", "fail", "raise"}, priv_effective \in BOOLEAN,
          pull \in Outcomes, retag \in Outcomes :
          IF \/ tag = "raise"
             \/ ~priv_effective /\ pull = "raise"
             \/ ~priv_effective /\ pull = "ok" /\ retag = "raise"
          THEN Propagate("tag")
          ELSE pc' = "describe" /\ UNCHANGED raised_at
    /\ obs' = Op(obs)
    /\ UNCHANGED << public_addon_chart_images, private_addon_chart_images,
                    failed_push_addon_chart_images, private_ecr_authenticated, platform,
                    retry_count, idx, attempt, attempted_recovery, rc, tar_exists,
                    remote_tags, pushed >>

\* lines 1117-1129: describe_repositories / create_repository; only
\* botocore ClientError is caught
DescribeRepository ==
    /\ pc = "describe"
    /\ \E out \in {"exists", "created", "create_error", "describe_error", "raise"} :
          IF out = "raise"
          THEN Propagate("describe")
          ELSE pc' = "auth" /\ UNCHANGED raised_at
    /\ obs' = [obs EXCEPT !.repoCall = TRUE]
    /\ UNCHANGED << public_addon_chart_images, private_addon_chart_images,
                    failed_push_addon_chart_images, private_ecr_authenticated, platform,
                    retry_count, idx, attempt, attempted_recovery, rc, tar_exists,
                    remote_tags, pushed >>

\* line 1131 and authenticate_ecr (496-519): the login runs only while the
\* registry is not marked authenticated; the aws CLI call may raise
\* CalledProcessError, which authenticate_ecr re-raises.  Lines 1133-1134
\* initialise the attempt loop.
AuthenticateEcr ==
    /\ pc = "auth"
    /\ \/ /\ private_ecr_authenticated
          /\ pc' = "loop"
          /\ UNCHANGED << private_ecr_authenticated, raised_at >>
       \/ /\ ~private_ecr_authenticated
          /\ \E out \in {"ok", "login_failed", "raise"} :
                IF out = "raise"
                THEN Propagate("auth") /\ UNCHANGED private_ecr_authenticated
                ELSE /\ private_ecr_authenticated' = TRUE
                     /\ pc' = "loop"
                     /\ UNCHANGED raised_at
    /\ attempt' = 0
    /\ attempted_recovery' = FALSE
    /\ UNCHANGED << public_addon_chart_images, private_addon_chart_images,
                    failed_push_addon_chart_images, platform, retry_count, idx, rc,
                    tar_exists, remote_tags, pushed, obs >>

\* line 1134: range(retry_count) is exhausted
LoopExit ==
    /\ pc = "loop"
    /\ ~(attempt < retry_count)
    /\ pc' = "next"
    /\ UNCHANGED << public_addon_chart_images, private_addon_chart_images,
                    failed_push_addon_chart_images, private_ecr_authenticated, platform,
                    retry_count, idx, attempt, attempted_recovery, rc, tar_exists,
                    remote_tags, raised_at, pushed, obs >>

\* lines 1135-1148: the direct push (Tier 1)
DirectPush ==
    /\ pc = "loop"
    /\ attempt < retry_count
    /\ \E out \in Outcomes :
          LET o == [Op(obs) EXCEPT !.pushAfterDel = @ + (IF obs.lastStep THEN 1 ELSE 0),
                                   !.pushes = @ + 1] IN
          CASE out = "ok" ->
                 /\ obs' = PushSucceeded(o)
                 /\ pushed' = [pushed EXCEPT ![idx] = TRUE]
                 /\ remote_tags' = remote_tags \cup {private_image}
                 /\ pc' = "next"
                 /\ UNCHANGED << failed_push_addon_chart_images, attempt, rc >>
            [] out = "fail" ->
                 LET o2 == [o EXCEPT !.directFail = @ + 1, !.failAt = attempt] IN
                 /\ IF NeedsFirstRecovery(attempted_recovery)
                    THEN CallRecover(1, o2)
                    ELSE pc' = "inspect" /\ obs' = o2 /\ UNCHANGED rc
                 /\ UNCHANGED << failed_push_addon_chart_images, attempt, pushed, remote_tags >>
            [] out = "raise" ->
                 /\ ExceptHandler(o)
                 /\ UNCHANGED << rc, pushed, remote_tags >>
    /\ UNCHANGED << public_addon_chart_images, private_addon_chart_images,
                    private_ecr_authenticated, platform, retry_count, idx,
                    attempted_recovery, tar_exists, raised_at >>

\* lines 1150-1156: inspect both references, recover when either lacks a platform
InspectAfterFailure ==
    /\ pc = "inspect"
    /\ \E eff_pub \in BOOLEAN, eff_priv \in BOOLEAN :
          IF ~eff_pub \/ ~eff_priv
          THEN CallRecover(2, obs)
          ELSE pc' = "after" /\ UNCHANGED << rc, obs >>
    /\ UNCHANGED << public_addon_chart_images, private_addon_chart_images,
                    failed_push_addon_chart_images, private_ecr_authenticated, platform,
                    retry_count, idx, attempt, attempted_recovery, tar_exists,
                    remote_tags, raised_at, pushed >>

\* lines 1157-1160: wait retry_delay, next attempt
RetryDelay ==
    /\ pc = "after"
    /\ HasNextAttempt(attempt, retry_count)
    /\ attempt' = attempt + 1
    /\ pc' = "loop"
    /\ obs' = [obs EXCEPT !.waits = @ + 1,
                          !.waitAfterOk = @ \/ obs.pushOk,
                          !.waitAtLast = @ \/ attempt + 1 >= retry_count]
    /\ UNCHANGED << public_addon_chart_images, private_addon_chart_images,
                    failed_push_addon_chart_images, private_ecr_authenticated, platform,
                    retry_count, idx, attempted_recovery, rc, tar_exists, remote_tags,
                    raised_at, pushed >>

\* lines 1161-1173: final fallback: delete the remote tag (when the image
\* name carries a tag), then one more explicit-platform recovery
DeleteRemoteTag ==
    /\ pc = "after"
    /\ ~HasNextAttempt(attempt, retry_count)
    /\ LET o == [obs EXCEPT !.lastStep = TRUE] IN
       IF ImageTag(public_repo) # ""
       THEN \E out \in {"ok", "raise"} :
               /\ remote_tags' = IF out = "ok" THEN remote_tags \ {private_image}
                                 ELSE remote_tags
               /\ CallRecover(3, [Op(o) EXCEPT !.dels = @ + 1, !.delAt = attempt,
                                     !.delAbsent = @ \/ private_image \notin remote_tags])
       ELSE /\ CallRecover(3, o)
            /\ UNCHANGED remote_tags
    /\ UNCHANGED << public_addon_chart_images, private_addon_chart_images,
                    failed_push_addon_chart_images, private_ecr_authenticated, platform,
                    retry_count, idx, attempt, attempted_recovery, tar_exists,
                    raised_at, pushed >>

\* the for loop over public_addon_chart_images advances (line 1050)
NextImage ==
    /\ pc = "next"
    /\ idx' = idx + 1
    /\ pc' = IF idx + 1 > NImages THEN "done" ELSE "image"
    /\ UNCHANGED << public_addon_chart_images, private_addon_chart_images,
                    failed_push_addon_chart_images, private_ecr_authenticated, platform,
                    retry_count, attempt, attempted_recovery, rc, tar_exists,
                    remote_tags, raised_at, pushed, obs >>

\* ------------------------------------------- _recover_push_no_platform
\* variant: a failure of any Tier 2 step falls through to the save/load fallback
ReturnT2_FallThrough(ret, step) ==
    IF ret = "false"
    THEN /\ pc' = "t3_save"
         /\ rc' = [rc EXCEPT !.t2step = step, !.t3 = TRUE]
    ELSE /\ pc' = "rec_ret"
         /\ rc' = [rc EXCEPT !.ret = ret, !.t2step = step]

\* return from the Tier 2 part of the function (no archive was written)
ReturnT2(ret, step) ==
    /\ pc' = "rec_ret"
    /\ rc' = [rc EXCEPT !.ret = ret, !.t2step = step]

\* variant: early returns of the fallback skip the cleanup
LeaveT3_SkipFinally(ret) ==
    /\ pc' = IF ret = "true" THEN "t3_finally" ELSE "rec_ret"
    /\ rc' = [rc EXCEPT !.ret = ret]

\* leave the try block of the save/load fallback: the finally clause runs next
LeaveT3(ret) ==
    /\ pc' = "t3_finally"
    /\ rc' = [rc EXCEPT !.ret = ret]

UnchangedByRecover ==
    UNCHANGED << public_addon_chart_images, private_addon_chart_images,
                 failed_push_addon_chart_images, private_ecr_authenticated, platform,
                 retry_count, idx, attempt, attempted_recovery, raised_at >>

\* lines 383-397: best-effort removal of the local tags (exceptions swallowed),
\* then docker pull --platform
T2Pull ==
    /\ pc = "t2_pull"
    /\ \E out \in Outcomes :
          CASE out = "ok"    -> pc' = "t2_tag" /\ UNCHANGED rc
            [] out = "fail"  -> ReturnT2("false", "pull")
            [] out = "raise" -> ReturnT2("raise", "pull")
    /\ obs' = Op(obs)
    /\ UNCHANGED << tar_exists, remote_tags, pushed >>
    /\ UnchangedByRecover

\* lines 399-418: retag from the first repo digest, else from the local image id
T2Tag ==
    /\ pc = "t2_tag"
    /\ \E digest_ref \in BOOLEAN, image_id \in BOOLEAN, out \in Outcomes :
          IF ~digest_ref /\ ~image_id
          THEN ReturnT2("false", "tag") /\ obs' = obs
          ELSE /\ obs' = Op(obs)
               /\ CASE out = "ok"    -> /\ pc' = "t2_push"
                                        /\ rc' = [rc EXCEPT !.digest_ref = digest_ref]
                    [] out = "fail"  -> ReturnT2("false", "tag")
                    [] out = "raise" -> ReturnT2("raise", "tag")
    /\ UNCHANGED << tar_exists, remote_tags, pushed >>
    /\ UnchangedByRecover

\* lines 419-422: push after the explicit-platform pull; a failed push falls
\* through to the save/load fallback (Tier 3)
T2Push ==
    /\ pc = "t2_push"
    /\ \E out \in Outcomes :
          CASE out = "ok" ->
                 /\ ReturnT2("true", "none")
                 /\ obs' = PushSucceeded(Op(obs))
                 /\ pushed' = [pushed EXCEPT ![idx] = TRUE]
                 /\ remote_tags' = remote_tags \cup {private_image}
            [] out = "fail" ->
                 /\ pc' = "t3_save"
                 /\ rc' = [rc EXCEPT !.t2step = "push", !.t3 = TRUE]
                 /\ obs' = [Op(obs) EXCEPT !.t3Run = TRUE]
                 /\ UNCHANGED << pushed, remote_tags >>
            [] out = "raise" ->
                 /\ ReturnT2("raise", "push")
                 /\ obs' = Op(obs)
                 /\ UNCHANGED << pushed, remote_tags >>
    /\ UNCHANGED tar_exists
    /\ UnchangedByRecover

\* lines 423-435: makedirs, removal of the private tag, docker save; a save
\* that fails or raises may leave a partial archive behind
T3Save ==
    /\ pc = "t3_save"
    /\ \E out \in Outcomes, partial \in BOOLEAN :
          CASE out = "ok"    -> pc' = "t3_load" /\ tar_exists' = TRUE /\ UNCHANGED rc
            [] out = "fail"  -> LeaveT3("false") /\ tar_exists' = partial
            [] out = "raise" -> LeaveT3("raise") /\ tar_exists' = partial
    /\ obs' = Op(obs)
    /\ UNCHANGED << remote_tags, pushed >>
    /\ UnchangedByRecover

\* lines 436-437: docker load
T3Load ==
    /\ pc = "t3_load"
    /\ \E out \in Outcomes :
          CASE out = "ok"    -> pc' = "t3_tag" /\ UNCHANGED rc
            [] out = "fail"  -> LeaveT3("false")
            [] out = "raise" -> LeaveT3("raise")
    /\ obs' = Op(obs)
    /\ UNCHANGED << tar_exists, remote_tags, pushed >>
    /\ UnchangedByRecover

\* lines 438-449: loaded_id = _get_local_image_id(src_ref) or image_id.  When
\* the digest branch was taken in Tier 2, image_id was never assigned, so a
\* missing loaded id raises UnboundLocalError; otherwise image_id is set.
T3Tag ==
    /\ pc = "t3_tag"
    /\ \E loaded \in BOOLEAN, out \in Outcomes :
          IF ~loaded /\ rc.digest_ref
          THEN LeaveT3("raise") /\ obs' = obs
          ELSE /\ obs' = Op(obs)
               /\ CASE out = "ok"    -> pc' = "t3_push" /\ UNCHANGED rc
                    [] out = "fail"  -> LeaveT3("false")
                    [] out = "raise" -> LeaveT3("raise")
    /\ UNCHANGED << tar_exists, remote_tags, pushed >>
    /\ UnchangedByRecover

\* lines 450-452: push after the reload
T3Push ==
    /\ pc = "t3_push"
    /\ \E out \in Outcomes :
          CASE out = "ok" ->
                 /\ LeaveT3(RecoverResult(TRUE))
                 /\ obs' = PushSucceeded(Op(obs))
                 /\ pushed' = [pushed EXCEPT ![idx] = TRUE]
                 /\ remote_tags' = remote_tags \cup {private_image}
            [] out = "fail" ->
                 /\ LeaveT3(RecoverResult(FALSE))
                 /\ obs' = Op(obs)
                 /\ UNCHANGED << pushed, remote_tags >>
            [] out = "raise" ->
                 /\ LeaveT3("raise")
                 /\ obs' = Op(obs)
                 /\ UNCHANGED << pushed, remote_tags >>
    /\ UNCHANGED tar_exists
    /\ UnchangedByRecover

\* lines 453-458: finally: remove the archive if it exists
T3Finally ==
    /\ pc = "t3_finally"
    /\ tar_exists' = FALSE
    /\ pc' = "rec_ret"
    /\ obs' = [obs EXCEPT !.t3Fail = @ \/ rc.ret # "true"]
    /\ UNCHANGED << rc, remote_tags, pushed >>
    /\ UnchangedByRecover

\* the three call sites of _recover_push_no_platform take its result:
\* True breaks out of the attempt loop (1147, 1156, 1175); False continues
\* after the call; an exception reaches the handler at line 1178
RecoverReturn ==
    /\ pc = "rec_ret"
    /\ LET o == [obs EXCEPT !.recFail = @ \/ rc.ret = "false",
                            !.tarLeft = @ \/ (rc.t3 /\ tar_exists)] IN
       CASE rc.ret = "true" ->
              /\ pc' = "next"
              /\ obs' = o
              /\ UNCHANGED << failed_push_addon_chart_images, attempt, attempted_recovery >>
         [] rc.ret = "raise" ->
              /\ ExceptHandler(o)
              /\ UNCHANGED attempted_recovery
         [] rc.ret = "false" /\ rc.site = 1 ->
              /\ attempted_recovery' = TRUE
              /\ pc' = "inspect"
              /\ obs' = o
              /\ UNCHANGED << failed_push_addon_chart_images, attempt >>
         [] rc.ret = "false" /\ rc.site = 2 ->
              /\ pc' = "after"
              /\ obs' = o
              /\ UNCHANGED << failed_push_addon_chart_images, attempt, attempted_recovery >>
         [] rc.ret = "false" /\ rc.site = 3 ->
              /\ failed_push_addon_chart_images' =
                    Append(failed_push_addon_chart_images, private_image)
              /\ obs' = Recorded(o)
              /\ attempt' = attempt + 1
              /\ pc' = "loop"
              /\ UNCHANGED attempted_recovery
    /\ UNCHANGED << public_addon_chart_images, private_addon_chart_images,
                    private_ecr_authenticated, platform, retry_count, idx, rc,
                    tar_exists, remote_tags, raised_at, pushed >>

\* ---------------------------------------------------------- specification
Next ==
    \/ BeginImage /\ UNCHANGED auxVars
    \/ PullLogic /\ UNCHANGED auxVars
    \/ TagImage /\ UNCHANGED auxVars
    \/ DescribeRepository /\ UNCHANGED auxVars
    \/ AuthenticateEcr /\ UNCHANGED auxVars
    \/ LoopExit /\ UNCHANGED auxVars
    \/ DirectPush /\ UNCHANGED auxVars
    \/ InspectAfterFailure /\ UNCHANGED auxVars
    \/ RetryDelay /\ UNCHANGED auxVars
    \/ DeleteRemoteTag /\ UNCHANGED auxVars
    \/ NextImage /\ UNCHANGED auxVars
    \/ T2Pull /\ UNCHANGED auxVars
    \/ T2Tag /\ UNCHANGED auxVars
    \/ T2Push /\ UNCHANGED auxVars
    \/ T3Save /\ UNCHANGED auxVars
    \/ T3Load /\ UNCHANGED auxVars
    \/ T3Tag /\ UNCHANGED auxVars
    \/ T3Push /\ UNCHANGED auxVars
    \/ T3Finally /\ UNCHANGED auxVars
    \/ RecoverReturn /\ UNCHANGED auxVars

Spec == Init /\ [][Next]_vars

TypeOK ==
    /\ pc \in {"image", "pull_logic", "tag", "describe", "auth", "loop", "inspect",
               "after", "next", "done", "raised"} \cup RecoverPcs
    /\ attempt \in 0..retry_count
    /\ idx \in 1..NImages + 1
    /\ Len(private_addon_chart_images) <= NImages

\* ------------------------------------------------------------ properties
T3Pcs == {"t3_save", "t3_load", "t3_tag", "t3_push", "t3_finally"}

PreLoopSteps == {"pull_logic", "tag", "describe", "auth"}

\* C1 as stated: a tier starts only after every lower tier was attempted and
\* failed; in particular the remote tag is deleted only after the direct
\* push, Tier 2 and Tier 3 have each failed for the image.
C1_AllLowerTiersFailed ==
    /\ pc \in RecoverPcs => obs.directFail >= 1
    /\ rc.t3 => rc.t2step = "push"
    /\ obs.dels > 0 => obs.directFail >= 1 /\ obs.recFail /\ obs.t3Fail

\* C1 amended: _recover_push_no_platform runs only in an attempt whose direct
\* push failed, the save/load fallback only after the Tier 2 push of the same
\* invocation failed, and the final fallback (remote tag deletion) only after
\* a direct push and an invocation of the recovery failed; Tier 3 need not
\* have been reached.
C1_TierOrder ==
    /\ pc \in RecoverPcs => obs.directFail >= 1 /\ obs.failAt = attempt
    /\ (rc.t3 \/ pc \in T3Pcs) => rc.t2step = "push"
    /\ obs.lastStep => obs.directFail >= 1 /\ obs.recFail
    /\ obs.dels > 0 => obs.lastStep

C1_Witness == obs.dels > 0 /\ ~obs.t3Run /\ pc = "t2_tag"

\* C2 as stated: Tier 2 is not attempted before the direct push has failed
\* retry_count times.
C2_RecoveryAfterRetryBudget == pc \in RecoverPcs => obs.directFail >= retry_count

\* C2 amended: the direct push is tried at most retry_count times per image,
\* and Tier 2 is started right after the first failed direct push, in the
\* same attempt, whatever retry_count is.
C2_RecoveryAfterFirstFailure ==
    /\ obs.directFail <= retry_count
    /\ obs.directFail >= 1 => obs.recRun
    /\ obs.recRun => obs.directFail >= 1
    /\ pc \in RecoverPcs => obs.failAt = attempt

C2_Witness == pc = "t2_pull" /\ obs.directFail = 1 /\ retry_count >= 2 /\ attempt = 0

\* C3: after the first successful push of an image's destination no further
\* pull, tag, push, save, load or remote tag deletion is issued for it and it
\* is not recorded as failed; the code only leaves the recovery and moves on.
C3_SuccessEndsTransfer ==
    /\ ~obs.opAfterOk
    /\ ~obs.failAfterOk
    /\ obs.pushOk => pc \in {"t3_finally", "rec_ret", "next", "image", "done"}
    /\ obs.pushOk /\ pc \in {"t3_finally", "rec_ret"} => rc.ret = "true"

C3_Witness == pc = "next" /\ obs.pushOk /\ rc.t3 /\ rc.site = 1 /\ obs.dels = 0

\* C4 as stated: whenever _recover_push_no_platform returns False, the
\* save/load fallback was attempted in that invocation.
C4_FallbackOnAnyTier2Failure == pc = "rec_ret" /\ rc.ret = "false" => rc.t3

\* C4 amended: the save/load fallback is attempted exactly when the Tier 2
\* push returned failure; when the pull, the digest/image-id lookup or the
\* retag fails, _recover_push_no_platform returns False without it.
C4_FallbackOnPushFailureOnly ==
    /\ pc = "rec_ret" /\ rc.ret = "false" => (rc.t3 <=> rc.t2step = "push")
    /\ pc \in T3Pcs => rc.t3 /\ rc.t2step = "push"

C4_Witness == pc = "rec_ret" /\ rc.ret = "false" /\ rc.t2step = "pull" /\ ~rc.t3

C6_DeletionOnlyOfStaleTag == obs.dels > 0 => obs.t3Fail /\ ~obs.delAbsent

\* C6 amended: batch_delete_image is called only in the last attempt of an
\* image whose name carries a tag, after a direct push and a recovery have
\* failed; it is not conditioned on Tier 3 or on the tag being present.
C6_DeletionInLastAttempt ==
    obs.dels > 0 =>
        /\ obs.delAt = retry_count - 1
        /\ obs.directFail >= 1
        /\ obs.recFail
        /\ pc \notin {"image", "done"} => public_addon_chart_images[idx].tag # ""

C6_Witness == obs.dels > 0 /\ obs.delAbsent /\ ~obs.t3Run /\ pc = "next"

\* C7: the remote tag deletion is issued at most once per image, exactly one
\* recovery follows it, no direct push follows it, and the image then is
\* either pushed or recorded as failed.
C7_OneDeletionOneRecovery ==
    /\ obs.dels <= 1
    /\ obs.recAfterDel <= 1
    /\ obs.pushAfterDel = 0
    /\ obs.dels = 1 => obs.recAfterDel = 1
    /\ pc \in {"next", "image", "done"} /\ obs.dels = 1 => (obs.pushOk \/ obs.recorded >= 1)

C7_Witness == pc = "next" /\ obs.dels = 1 /\ obs.pushOk /\ obs.recAfterDel = 1

\* C8: with retry_count >= 1, an image whose pushes and recoveries all fail
\* is recorded in failed_push_addon_chart_images, nothing is raised, and the
\* loop goes on to the image that follows.
C8_FailedImageRecordedLoopContinues ==
    /\ [](pc = "next" /\ retry_count >= 1 /\ ~obs.pushOk =>
            /\ SeqContains(failed_push_addon_chart_images, private_image)
            /\ raised_at = "none")
    /\ [][pc = "next" /\ ~obs.pushOk =>
            /\ idx' = idx + 1
            /\ pc' = IF idx < NImages THEN "image" ELSE "done"]_vars

\* the first image failed every tier and the loop has moved on to the second
C8_Witness ==
    /\ idx = 2
    /\ pc = "image"
    /\ ~pushed[1]
    /\ obs.lastStep /\ obs.t3Fail /\ ~obs.pushOk
    /\ SeqContains(failed_push_addon_chart_images, PrivateImage(public_addon_chart_images[1]))

\* C9 as stated: no exception of a per-image step leaves push_images_to_ecr.
C9_NoExceptionPropagates == pc # "raised" /\ raised_at = "none"

\* C9 amended: an exception raised inside the attempt loop (push, recovery)
\* is caught: the destination is appended to failed_push_addon_chart_images
\* and the loop goes on; an exception of the remote tag deletion is caught
\* and the final recovery still runs; exceptions of the platform re-pull,
\* the tagging, the repository check or the private-registry login are not
\* caught and leave push_images_to_ecr.
C9_OnlyLoopExceptionsCaught ==
    /\ [](pc = "raised" <=> raised_at \in PreLoopSteps)
    /\ [](pc = "raised" => obs.directFail = 0 /\ ~obs.recRun /\ obs.dels = 0)
    /\ [][pc = "rec_ret" /\ rc.ret = "raise" =>
            /\ pc' = "loop"
            /\ failed_push_addon_chart_images' =
                  Append(failed_push_addon_chart_images, private_image)]_vars
    /\ [][pc = "after" /\ ~(attempt + 1 < retry_count) => pc' = "t2_pull"]_vars

C9_Witness == pc = "image" /\ idx = 2 /\ rc.ret = "raise" /\ obs.recorded >= 1

\* C10: when push_images_to_ecr returns, every image whose destination is
\* not in failed_push_addon_chart_images had a push of its destination succeed.
C10_UnfailedImagesWerePushed ==
    pc = "done" =>
        \A i \in 1..NImages :
            ~SeqContains(failed_push_addon_chart_images,
                         PrivateImage(public_addon_chart_images[i])) => pushed[i]

\* ======================================================================
\* The functions below are modelled by specifications of their own.  While
\* one of them runs, push_images_to_ecr is not running and its variables rest.
pushVars == << public_addon_chart_images, private_addon_chart_images,
               failed_push_addon_chart_images, private_ecr_authenticated, platform,
               retry_count, idx, pc, attempt, attempted_recovery, rc, tar_exists,
               remote_tags, raised_at, pushed, obs >>

PushIdle ==
    /\ public_addon_chart_images = <<>>
    /\ private_addon_chart_images = <<>>
    /\ failed_push_addon_chart_images = <<>>
    /\ private_ecr_authenticated = FALSE
    /\ platform = "auto"
    /\ retry_count = 0
    /\ idx = 1
    /\ pc = "idle"
    /\ attempt = 0
    /\ attempted_recovery = FALSE
    /\ rc = NoFrame
    /\ tar_exists = FALSE
    /\ remote_tags = {}
    /\ raised_at = "none"
    /\ pushed = [i \in 1..NumImages |-> FALSE]
    /\ obs = NoObs

\* ----------------------------------------------------------------- strings
\* A string is a sequence of chunks; the chunks are chosen so that every
\* pattern the code searches for ("/", ":", "@", a host name) is a chunk or a
\* sequence of chunks, and no pattern straddles a chunk boundary.
MaxStrLen == 4

\* s.startswith(p)
StartsWith(s, p) == Len(p) <= Len(s) /\ SubSeq(s, 1, Len(p)) = p

\* p in s
Contains(s, p) ==
    \E i \in 0..(Len(s) - Len(p)) : SubSeq(s, i + 1, i + Len(p)) = p

\* variant: only the first occurrence is replaced (str.replace(old, new, 1))
ReplaceAll_FirstOnly(s, old, new) ==
    IF \E i \in 1..Len(s) : s[i] = old
    THEN LET first == CHOOSE i \in 1..Len(s) :
                          s[i] = old /\ \A j \in 1..(i - 1) : s[j] # old
         IN  [i \in 1..Len(s) |-> IF i = first THEN new ELSE s[i]]
    ELSE s

\* s.replace(old, new) for a pattern that is one chunk
ReplaceAll(s, old, new) == [i \in 1..Len(s) |-> IF s[i] = old THEN new ELSE s[i]]

\* all strings over the chunks of A, up to n chunks long
RECURSIVE StringsUpTo(_, _)
StringsUpTo(A, n) ==
    IF n = 0 THEN { <<>> }
    ELSE LET shorter == StringsUpTo(A, n - 1)
         IN  shorter \cup { Append(t, c) : t \in { u \in shorter : Len(u) = n - 1 }, c \in A }

\* ------------------------------------------------- _normalize_image_host
MisspelledHost == "ecr-public.aws.com"
PublicEcrHost == "public.ecr.aws"

\* lines 464-469
NormalizeImageHost(image) ==
    IF StartsWith(image, <<MisspelledHost>>) \/ Contains(image, <<MisspelledHost, "/">>)
    THEN ReplaceAll(image, MisspelledHost, PublicEcrHost)
    ELSE image

HostChunks == {MisspelledHost, PublicEcrHost, "/", "app", "my-"}

NormalizeInit ==
    /\ nrm \in { [fn |-> "_normalize_image_host", image |-> x, once |-> <<>>,
                  twice |-> <<>>, calls |-> 0] : x \in StringsUpTo(HostChunks, MaxStrLen) }
    /\ gci = NoCall /\ plf = NoCall /\ dgf = NoCall /\ ovl = NoCall /\ chf = NoCall
    /\ PushIdle
    /\ MoreIdle

\* the first call, on the reference itself
NormalizeOnce ==
    /\ nrm.calls = 0
    /\ nrm' = [nrm EXCEPT !.once = NormalizeImageHost(nrm.image), !.calls = 1]
    /\ UNCHANGED << pushVars, moreVars, gci, plf, dgf, ovl, chf >>

\* a second call, on the result of the first (get_chart_images normalizes
\* line 963, pulling_chart_images normalizes again line 1014)
NormalizeAgain ==
    /\ nrm.calls = 1
    /\ nrm' = [nrm EXCEPT !.twice = NormalizeImageHost(nrm.once), !.calls = 2]
    /\ UNCHANGED << pushVars, moreVars, gci, plf, dgf, ovl, chf >>

NormalizeNext == NormalizeOnce \/ NormalizeAgain

SpecNormalize == NormalizeInit /\ [][NormalizeNext]_vars

\* C17: _normalize_image_host is idempotent: normalizing the result of a
\* normalization changes nothing.
C17_NormalizeIdempotent == nrm.calls = 2 => nrm.twice = nrm.once

\* a reference with two misspelled hosts was rewritten, and rewriting again kept it
C17_Witness ==
    /\ nrm.calls = 2
    /\ nrm.image = <<MisspelledHost, "/", MisspelledHost, "/">>
    /\ nrm.once = <<PublicEcrHost, "/", PublicEcrHost, "/">>
    /\ nrm.twice = nrm.once

\* the registry host of a reference: what precedes the first "/"
RECURSIVE HostOf(_)
HostOf(image) ==
    IF image = <<>> \/ image[1] = "/" THEN <<>>
    ELSE <<image[1]>> \o HostOf(Tail(image))

\* C18: only a reference whose registry host is ecr-public.aws.com is
\* rewritten, and only that host is replaced; every other reference, also one
\* that contains the misspelled host inside its host or its path, is returned
\* unchanged.
C18_RewritesOnlyMisspelledHost ==
    nrm.calls >= 1 =>
        nrm.once = IF HostOf(nrm.image) = <<MisspelledHost>>
                   THEN <<PublicEcrHost>> \o Tail(nrm.image)
                   ELSE nrm.image

\* -------------------------------------------------------- get_chart_images
MaxLines == 3

\* image.split('@')[0] if '@' in image else image  (line 958)
RECURSIVE StripDigest(_)
StripDigest(image) ==
    IF image = <<>> \/ image[1] = "@" THEN <<>>
    ELSE <<image[1]>> \o StripDigest(Tail(image))

\* the lines yq may print: image references, document separators, empty lines
YqLines ==
    { <<MisspelledHost, "/", "app">>,
      <<PublicEcrHost, "/", "app">>,
      <<PublicEcrHost, "/", "app", "@", "sha256:aa">>,
      <<"quay.io", "/", "app", ":", "1.0">>,
      <<"quay.io", "/", "app", ":", "1.0", "@", "sha256:aa">>,
      <<"---">>,
      <<>> }

\* the orders in which a set can be turned into a list
SeqsOf(S) ==
    { q \in [1..Cardinality(S) -> S] : \A i, j \in 1..Cardinality(S) : i # j => q[i] # q[j] }

\* variant: a list comprehension instead of the set comprehension of line 960
NormalizedImages_NoDedupe(unique_images) ==
    { [i \in DOMAIN q |-> NormalizeImageHost(q[i])] : q \in SeqsOf(unique_images) }

\* normalized_images = list({ self._normalize_image_host(img) for img in unique_images })
NormalizedImages(unique_images) ==
    SeqsOf({ NormalizeImageHost(img) : img \in unique_images })

\* "public.ecr.aws" in img
IsPublicEcr(img) == Contains(img, <<PublicEcrHost>>)

ImagesInit ==
    /\ gci \in { [fn |-> "get_chart_images", at |-> "yq", stdout |-> out,
                  unique_images |-> {}, normalized_images |-> <<>>, k |-> 1,
                  public_addon_chart_images |-> <<>>,
                  failed_pull_addon_chart_images |-> <<>>,
                  pulled |-> <<>>] : out \in StringsUpTo(YqLines, MaxLines) }
    /\ nrm = NoCall /\ plf = NoCall /\ dgf = NoCall /\ ovl = NoCall /\ chf = NoCall
    /\ PushIdle
    /\ MoreIdle

\* line 958: strip digests, drop empty lines and separators, dedupe
GciExtract ==
    /\ gci.at = "yq"
    /\ gci' = [gci EXCEPT
                 !.unique_images = { StripDigest(gci.stdout[i]) :
                                       i \in { j \in DOMAIN gci.stdout :
                                                 gci.stdout[j] # <<>> /\ gci.stdout[j] # <<"---">> } },
                 !.at = "normalize"]
    /\ UNCHANGED << pushVars, moreVars, nrm, plf, dgf, ovl, chf >>

\* line 960, then lines 962-973: the up-front logins change nothing here, their
\* exceptions are caught
GciNormalize ==
    /\ gci.at = "normalize"
    /\ \E lst \in NormalizedImages(gci.unique_images) :
         gci' = [gci EXCEPT !.normalized_images = lst,
                            !.at = IF lst = <<>> THEN "pull" ELSE "inspect"]
    /\ UNCHANGED << pushVars, moreVars, nrm, plf, dgf, ovl, chf >>

\* lines 974-990: one iteration of the manifest-inspect loop
GciInspect ==
    /\ gci.at = "inspect"
    /\ LET image == gci.normalized_images[gci.k]
           last == gci.k = Len(gci.normalized_images)
       IN  \E first \in {"ok", "fail"}, retry \in {"ok", "fail", "raise"} :
             LET ok == \/ first = "ok"
                       \/ first = "fail" /\ IsPublicEcr(image) /\ retry = "ok"
             IN  /\ (first = "ok" \/ ~IsPublicEcr(image)) => retry = "ok"
                 /\ gci' = [gci EXCEPT
                      !.public_addon_chart_images =
                          IF ok THEN Append(@, image) ELSE @,
                      !.failed_pull_addon_chart_images =
                          IF ok THEN @ ELSE Append(@, image),
                      !.k = IF last THEN 1 ELSE gci.k + 1,
                      !.at = IF last THEN "pull" ELSE "inspect"]
    /\ UNCHANGED << pushVars, moreVars, nrm, plf, dgf, ovl, chf >>

\* pulling_chart_images, lines 1012-1039: one iteration of the loop over
\* public_addon_chart_images, its retries folded into the outcome
PullingChartImage ==
    /\ gci.at = "pull"
    /\ gci.k <= Len(gci.public_addon_chart_images)
    /\ LET image == NormalizeImageHost(gci.public_addon_chart_images[gci.k])
       IN  \E o \in {"ok", "fail"} :
             gci' = [gci EXCEPT
                      !.pulled = Append(@, image),
                      !.failed_pull_addon_chart_images =
                          IF o = "fail" THEN Append(@, image) ELSE @,
                      !.k = gci.k + 1]
    /\ UNCHANGED << pushVars, moreVars, nrm, plf, dgf, ovl, chf >>

PullingDone ==
    /\ gci.at = "pull"
    /\ gci.k > Len(gci.public_addon_chart_images)
    /\ gci' = [gci EXCEPT !.at = "done"]
    /\ UNCHANGED << pushVars, moreVars, nrm, plf, dgf, ovl, chf >>

ImagesNext ==
    \/ GciExtract
    \/ GciNormalize
    \/ GciInspect
    \/ PullingChartImage
    \/ PullingDone

SpecImages == ImagesInit /\ [][ImagesNext]_vars

\* C19: public_addon_chart_images never holds two entries that are equal after
\* digest stripping and host normalization, and pulling_chart_images handles
\* each of its entries exactly once.
C19_SourcesDeduplicated ==
    /\ \A i, j \in DOMAIN gci.public_addon_chart_images :
         i # j => NormalizeImageHost(StripDigest(gci.public_addon_chart_images[i]))
                  # NormalizeImageHost(StripDigest(gci.public_addon_chart_images[j]))
    /\ \A i, j \in DOMAIN gci.pulled : i # j => gci.pulled[i] # gci.pulled[j]
    /\ gci.at = "done" => gci.pulled = gci.public_addon_chart_images

\* three lines that name one image in three spellings gave one entry, pulled once
C19_Witness ==
    /\ gci.at = "done"
    /\ gci.stdout = << <<MisspelledHost, "/", "app">>,
                       <<PublicEcrHost, "/", "app", "@", "sha256:aa">>,
                       <<PublicEcrHost, "/", "app">> >>
    /\ gci.public_addon_chart_images = << <<PublicEcrHost, "/", "app">> >>
    /\ gci.pulled = gci.public_addon_chart_images

\* ----------------------------------------- _pull_image_with_platform_logic
\* pref = getattr(self, "platform", "auto"): an object without the attribute
\* ("unset") behaves like auto
PlatformPreference(attr) == IF attr = "unset" THEN "auto" ELSE attr

PlatformAttrs == {"unset", "auto", "linux/amd64", "linux/arm64"}

\* variant: a successful pull counts even without platform metadata
PullQualifies_IgnoresMetadata(ok, effective) == ok

\* lines 366-370: the entry ends the loop when the pull succeeded and the
\* pulled image reports an os/architecture
PullQualifies(ok, effective) == ok /\ effective # "none"

PullInit ==
    /\ plf \in { [fn |-> "_pull_image_with_platform_logic", image |-> ImageName(r),
                  attr |-> a, at |-> "entry", sequences |-> <<>>, k |-> 1,
                  pulls |-> <<>>, trace |-> <<>>, ret |-> "none"] :
                  r \in ImageRefs, a \in PlatformAttrs }
    /\ nrm = NoCall /\ gci = NoCall /\ dgf = NoCall /\ ovl = NoCall /\ chf = NoCall
    /\ PushIdle
    /\ MoreIdle

\* lines 362-363
PlfSequences ==
    /\ plf.at = "entry"
    /\ plf' = [plf EXCEPT !.sequences = PlatformSequence(PlatformPreference(plf.attr)),
                          !.at = "pull"]
    /\ UNCHANGED << pushVars, moreVars, nrm, gci, dgf, ovl, chf >>

\* line 365: docker pull of the current entry; run_docker turns a failing
\* command into None, any other exception leaves the function
PlfDockerPull ==
    /\ plf.at = "pull"
    /\ plf.k <= Len(plf.sequences)
    /\ LET plat == plf.sequences[plf.k] IN
       \E o \in {"ok", "fail", "raise"} :
         plf' = [plf EXCEPT
                   !.pulls = Append(@, plat),
                   !.trace = IF o = "ok" THEN @
                             ELSE Append(@, IF o = "fail" THEN "pullfail" ELSE "raise"),
                   !.k = IF o = "fail" THEN plf.k + 1 ELSE plf.k,
                   !.at = IF o = "ok" THEN "inspect"
                          ELSE IF o = "fail" THEN "pull" ELSE "left",
                   !.ret = IF o = "raise" THEN "raise" ELSE @]
    /\ UNCHANGED << pushVars, moreVars, nrm, gci, dgf, ovl, chf >>

\* lines 367-374: inspect the pulled image, return True or go on
PlfInspect ==
    /\ plf.at = "inspect"
    /\ \E effective \in {"none", "linux/amd64", "linux/arm64"} :
         LET seen == IF effective = "none" THEN "noplatform" ELSE "ok" IN
         IF PullQualifies(TRUE, effective)
         THEN plf' = [plf EXCEPT !.trace = Append(@, seen), !.at = "left", !.ret = "true"]
         ELSE plf' = [plf EXCEPT !.trace = Append(@, seen), !.at = "pull",
                                 !.k = plf.k + 1]
    /\ UNCHANGED << pushVars, moreVars, nrm, gci, dgf, ovl, chf >>

\* line 375: the sequence is exhausted
PlfReturnFalse ==
    /\ plf.at = "pull"
    /\ plf.k > Len(plf.sequences)
    /\ plf' = [plf EXCEPT !.at = "left", !.ret = "false"]
    /\ UNCHANGED << pushVars, moreVars, nrm, gci, dgf, ovl, chf >>

PullNext ==
    \/ PlfSequences
    \/ PlfDockerPull
    \/ PlfInspect
    \/ PlfReturnFalse

SpecPull == PullInit /\ [][PullNext]_vars

\* C13: the trial sequence is [none, linux/amd64, linux/arm64] for the policy
\* auto (or no policy), and [p] for an explicit platform p; pulls are issued
\* for its entries in that order.
C13_PlatformSequence ==
    LET expected == IF plf.attr \in {"auto", "unset"}
                    THEN <<"none", "linux/amd64", "linux/arm64">>
                    ELSE <<plf.attr>>
    IN  /\ plf.at # "entry" => plf.sequences = expected
        /\ Len(plf.pulls) <= Len(expected)
        /\ plf.pulls = SubSeq(expected, 1, Len(plf.pulls))

\* under auto all three entries were tried, in order
C13_Witness ==
    /\ plf.attr = "unset"
    /\ plf.pulls = <<"none", "linux/amd64", "linux/arm64">>
    /\ plf.ret = "false"

\* C14: the entries are tried in order; the function returns true exactly when
\* an entry's pull succeeded with a concrete os/architecture, issues no pull
\* after that entry, moves on after a failed pull or a pull without platform
\* metadata, and returns false when no entry qualifies.
C14_StopsAtFirstQualifying ==
    /\ \A i \in 1..(Len(plf.trace) - 1) : plf.trace[i] \in {"pullfail", "noplatform"}
    /\ Len(plf.pulls) \in {Len(plf.trace), Len(plf.trace) + 1}
    /\ Len(plf.pulls) = Len(plf.trace) + 1 => plf.at = "inspect"
    /\ plf.ret = "true" <=> (plf.trace # <<>> /\ plf.trace[Len(plf.trace)] = "ok")
    /\ plf.ret = "false" <=>
          /\ plf.at = "left"
          /\ Len(plf.trace) = Len(plf.sequences)
          /\ \A i \in 1..Len(plf.trace) : plf.trace[i] \in {"pullfail", "noplatform"}
    /\ plf.at = "left" => plf.ret \in {"true", "false", "raise"}
    /\ plf.ret = "raise" <=> (plf.trace # <<>> /\ plf.trace[Len(plf.trace)] = "raise")

\* the second entry qualified after the first pulled without metadata; the
\* third entry was never pulled
C14_Witness ==
    /\ plf.attr = "auto"
    /\ plf.trace = <<"noplatform", "ok">>
    /\ plf.pulls = <<"none", "linux/amd64">>
    /\ plf.ret = "true"

\* ------------------- _recover_push_no_platform, lines 383-422 (Tier 2) in detail
MaxDigests == 2

\* entries docker may list under RepoDigests
IndexDigest == <<"quay.io/team/app", "@sha256:", "1dx">>
MirrorDigest == <<"mirror/app", "@sha256:", "0th">>
NoDigest == <<"<none>", "@", "<none>">>

\* what `docker inspect --format '{{json .RepoDigests}}'` can give: a failed
\* command, blank output, JSON that is no list, text that is no JSON, a list
InspectOutputs ==
    { [kind |-> k, list |-> <<>>] : k \in {"fail", "blank", "json_other", "json_invalid"} }
    \cup { [kind |-> "json_list", list |-> l] :
             l \in StringsUpTo({IndexDigest, MirrorDigest, NoDigest}, MaxDigests) }

\* the manifest the registry holds for the source: a single-architecture
\* manifest, or an index with entries for some platforms
Manifests ==
    { [kind |-> "single", entries |-> {}] }
    \cup { [kind |-> "index", entries |-> e] : e \in SUBSET {"linux/amd64", "linux/arm64"} }

\* _get_repo_digests, lines 328-342: the list, or None
GetRepoDigests(out) ==
    IF out.kind = "json_list" THEN [none |-> FALSE, list |-> out.list]
    ELSE [none |-> TRUE, list |-> <<>>]

\* variant: the last matching entry is taken
FirstDigestRef_Last(digests) ==
    IF \E i \in DOMAIN digests : Contains(digests[i], <<"@sha256:">>)
    THEN digests[CHOOSE i \in DOMAIN digests :
                    /\ Contains(digests[i], <<"@sha256:">>)
                    /\ \A j \in DOMAIN digests :
                         j > i => ~Contains(digests[j], <<"@sha256:">>)]
    ELSE <<>>

\* lines 400-405: the first entry that contains "@sha256:", or None (<<>>)
FirstDigestRef(digests) ==
    IF \E i \in DOMAIN digests : Contains(digests[i], <<"@sha256:">>)
    THEN digests[CHOOSE i \in DOMAIN digests :
                    /\ Contains(digests[i], <<"@sha256:">>)
                    /\ \A j \in DOMAIN digests :
                         j < i => ~Contains(digests[j], <<"@sha256:">>)]
    ELSE <<>>

\* variant: the policy itself is passed to docker pull
ExplicitPlatform_KeepsPolicy(pref) == pref

\* line 384: plat = "linux/amd64" if pref == "auto" else pref
ExplicitPlatform(pref) == IF pref = "auto" THEN "linux/amd64" ELSE pref

Tier2Source == ImageName([segs |-> <<"quay.io", "team", "app">>, tag |-> "1.0"])
Tier2Destination == "ecr/chart/app:1.0"

Tier2Init ==
    /\ dgf \in { [fn |-> "_recover_push_no_platform", attr |-> a, manifest |-> m,
                  at |-> "entry", plat |-> "", pulled_with |-> "",
                  out |-> [kind |-> "fail", list |-> <<>>],
                  digests |-> [none |-> TRUE, list |-> <<>>], digest_ref |-> <<>>,
                  image_id |-> "", tag_src |-> "none", pushes |-> 0, ret |-> "none",
                  registry0 |-> reg, registry |-> reg] :
                  a \in PlatformAttrs, m \in Manifests,
                  reg \in { {}, {Tier2Destination} } }
    /\ nrm = NoCall /\ gci = NoCall /\ plf = NoCall /\ ovl = NoCall /\ chf = NoCall
    /\ PushIdle
    /\ MoreIdle

\* lines 383-395: the explicit platform; the two best-effort removals of local
\* tags swallow their failures
Tier2Platform ==
    /\ dgf.at = "entry"
    /\ dgf' = [dgf EXCEPT !.plat = ExplicitPlatform(PlatformPreference(dgf.attr)),
                          !.at = "pull"]
    /\ UNCHANGED << pushVars, moreVars, nrm, gci, plf, ovl, chf >>

\* lines 397-398
Tier2Pull ==
    /\ dgf.at = "pull"
    /\ \E o \in Outcomes :
         dgf' = [dgf EXCEPT !.pulled_with = dgf.plat,
                            !.at = IF o = "ok" THEN "digests" ELSE "left",
                            !.ret = IF o = "ok" THEN @
                                    ELSE IF o = "fail" THEN "false" ELSE "raise"]
    /\ UNCHANGED << pushVars, moreVars, nrm, gci, plf, ovl, chf >>

\* lines 400-405: repo digests of the local image, first digest reference
Tier2RepoDigests ==
    /\ dgf.at = "digests"
    /\ \E out \in InspectOutputs :
         LET digests == GetRepoDigests(out) IN
         dgf' = [dgf EXCEPT !.out = out,
                            !.digests = digests,
                            !.digest_ref = FirstDigestRef(digests.list),
                            !.at = "tag"]
    /\ UNCHANGED << pushVars, moreVars, nrm, gci, plf, ovl, chf >>

\* lines 406-418: docker tag from the digest reference, else from the image id
Tier2Tag ==
    /\ dgf.at = "tag"
    /\ \E image_id \in {"", "sha256:1d"}, o \in Outcomes :
         IF dgf.digest_ref # <<>>
         THEN /\ image_id = ""
              /\ dgf' = [dgf EXCEPT !.tag_src = "digest",
                            !.at = IF o = "ok" THEN "push" ELSE "left",
                            !.ret = IF o = "ok" THEN @
                                    ELSE IF o = "fail" THEN "false" ELSE "raise"]
         ELSE IF image_id = ""
         THEN /\ o = "ok"
              /\ dgf' = [dgf EXCEPT !.at = "left", !.ret = "false"]
         ELSE dgf' = [dgf EXCEPT !.image_id = image_id, !.tag_src = "image_id",
                            !.at = IF o = "ok" THEN "push" ELSE "left",
                            !.ret = IF o = "ok" THEN @
                                    ELSE IF o = "fail" THEN "false" ELSE "raise"]
    /\ UNCHANGED << pushVars, moreVars, nrm, gci, plf, ovl, chf >>

\* lines 419-422: the push; a failed push goes on to the save/load fallback
Tier2Push ==
    /\ dgf.at = "push"
    /\ \E o \in Outcomes :
         dgf' = [dgf EXCEPT !.pushes = @ + 1,
                            !.registry = IF o = "ok" THEN @ \cup {Tier2Destination} ELSE @,
                            !.at = IF o = "fail" THEN "tier3" ELSE "left",
                            !.ret = IF o = "ok" THEN "true"
                                    ELSE IF o = "fail" THEN @ ELSE "raise"]
    /\ UNCHANGED << pushVars, moreVars, nrm, gci, plf, ovl, chf >>

Tier2Next ==
    \/ Tier2Platform
    \/ Tier2Pull
    \/ Tier2RepoDigests
    \/ Tier2Tag
    \/ Tier2Push

SpecTier2 == Tier2Init /\ [][Tier2Next]_vars

\* C15 (as stated): the digest lookup gives none for a single-architecture
\* manifest, the digest of the index entry matching the requested platform
\* for a multi-architecture index, none when no entry matches; the registry
\* is not changed.
C15_DigestOfMatchingIndexEntry ==
    dgf.at \in {"tag", "push", "tier3"} =>
        /\ dgf.manifest.kind = "single" => dgf.digest_ref = <<>>
        /\ dgf.manifest.kind = "index" /\ dgf.plat \notin dgf.manifest.entries
              => dgf.digest_ref = <<>>
        /\ dgf.manifest.kind = "index" /\ dgf.plat \in dgf.manifest.entries
              => dgf.digest_ref # <<>>
        /\ dgf.registry = dgf.registry0

\* C15 (amended): _get_repo_digests returns the list docker inspect reports
\* under RepoDigests for the local image, and none when the command fails or
\* prints nothing, no JSON or no JSON list; the digest reference is the first
\* listed entry containing "@sha256:", whatever the requested platform and
\* the kind of manifest; the registry is not changed by the lookup.
C15_FirstLocalRepoDigest ==
    dgf.at \in {"tag", "push", "tier3"} =>
        /\ dgf.digests.none <=> dgf.out.kind # "json_list"
        /\ dgf.digests.list = dgf.out.list
        /\ \/ /\ dgf.digest_ref = <<>>
              /\ \A i \in DOMAIN dgf.out.list : dgf.out.list[i] = NoDigest
           \/ \E i \in DOMAIN dgf.out.list :
                /\ dgf.digest_ref = dgf.out.list[i]
                /\ dgf.digest_ref \in {IndexDigest, MirrorDigest}
                /\ \A j \in 1..(i - 1) : dgf.out.list[j] = NoDigest
        /\ dgf.pushes = 0 => dgf.registry = dgf.registry0

\* a single-architecture image whose local record lists two digests: the
\* first one is taken
C15_Witness ==
    /\ dgf.at = "tag"
    /\ dgf.manifest.kind = "single"
    /\ dgf.out.list = <<IndexDigest, MirrorDigest>>
    /\ dgf.digest_ref = IndexDigest
    /\ dgf.registry = dgf.registry0

\* C16: Tier 2 pulls the source with the configured platform, or with
\* linux/amd64 under auto; it tags the destination from the first repo digest
\* containing "@sha256:" whenever there is one, from the local image id only
\* when there is none, and returns false without a push when neither exists.
C16_PinnedPullDigestPreferred ==
    LET expected == IF dgf.attr \in {"auto", "unset"} THEN "linux/amd64" ELSE dgf.attr
        hasDigest == \E i \in DOMAIN dgf.out.list : dgf.out.list[i] # NoDigest
        tagged == dgf.at \in {"push", "tier3"} \/ dgf.pushes > 0
    IN  /\ dgf.pulled_with \in {"", expected}
        /\ dgf.at \in {"digests", "tag", "push", "tier3"} => dgf.pulled_with = expected
        /\ dgf.tag_src = "digest" =>
              /\ hasDigest
              /\ \E i \in DOMAIN dgf.out.list :
                   /\ dgf.digest_ref = dgf.out.list[i]
                   /\ dgf.out.list[i] # NoDigest
                   /\ \A j \in 1..(i - 1) : dgf.out.list[j] = NoDigest
        /\ dgf.tag_src = "image_id" => ~hasDigest /\ dgf.image_id # ""
        /\ tagged /\ hasDigest => dgf.tag_src = "digest"
        /\ tagged => dgf.tag_src # "none"
        /\ dgf.tag_src = "none" => dgf.pushes = 0
        /\ dgf.at = "left" /\ dgf.tag_src = "none" => dgf.ret \in {"false", "raise"}

\* under auto the source was pulled for linux/amd64 and tagged from the digest
\* listed second, the first entry being no digest
C16_Witness ==
    /\ dgf.attr = "auto"
    /\ dgf.pulled_with = "linux/amd64"
    /\ dgf.out.list = <<NoDigest, MirrorDigest>>
    /\ dgf.tag_src = "digest"
    /\ dgf.digest_ref = MirrorDigest
    /\ dgf.ret = "true"

\* ------------------------------------------------------------ image_yaml.py
\* YAML values: strings, dicts (keys in document order), lists, anything else
Str(chunks) == [k |-> "str", s |-> chunks]
Dict(keys, vals) == [k |-> "dict", keys |-> keys, vals |-> vals]
List(items) == [k |-> "list", items |-> items]
Scalar == [k |-> "other"]
EmptyDict == Dict(<<>>, <<>>)

\* key in d
Has(d, key) == d.k = "dict" /\ \E i \in DOMAIN d.keys : d.keys[i] = key

\* d[key]
Get(d, key) == d.vals[CHOOSE i \in DOMAIN d.keys : d.keys[i] = key]

\* isinstance(d.get(key), str)
HasStr(d, key) == Has(d, key) /\ Get(d, key).k = "str"

\* d[key] = val: an existing key keeps its place, a new one goes last
SetKey(d, key, val) ==
    IF Has(d, key)
    THEN [d EXCEPT !.vals = [i \in DOMAIN d.vals |-> IF d.keys[i] = key THEN val ELSE d.vals[i]]]
    ELSE [d EXCEPT !.keys = Append(@, key), !.vals = Append(@, val)]

\* the assignments d[k1] = v1; d[k2] = v2; ... in order
RECURSIVE SetAll(_, _)
SetAll(d, pairs) ==
    IF pairs = <<>> THEN d
    ELSE SetAll(SetKey(d, pairs[1][1], pairs[1][2]), Tail(pairs))

\* d = _ensure_path(target, path) followed by the assignments to d: every
\* missing key on the path is created by setdefault; a value on the path that
\* is no dict makes setdefault (or the assignment) raise, what was created
\* before stays
RECURSIVE Update(_, _, _)
Update(target, path, pairs) ==
    IF target.k # "dict" THEN [t |-> target, err |-> TRUE]
    ELSE IF path = <<>> THEN [t |-> SetAll(target, pairs), err |-> FALSE]
    ELSE LET child == IF Has(target, path[1]) THEN Get(target, path[1]) ELSE EmptyDict
             r == Update(child, Tail(path), pairs)
         IN  [t |-> SetKey(target, path[1], r.t), err |-> r.err]

\* the value at a path of an overlay, Scalar when there is none
RECURSIVE GetPath(_, _)
GetPath(d, path) ==
    IF path = <<>> THEN d
    ELSE IF Has(d, path[1]) THEN GetPath(Get(d, path[1]), Tail(path))
    ELSE Scalar

\* s.split(sep): the pieces between the separators
RECURSIVE Split(_, _)
Split(s, sep) ==
    IF \E i \in DOMAIN s : s[i] = sep
    THEN LET first == CHOOSE i \in DOMAIN s : s[i] = sep /\ \A j \in 1..(i - 1) : s[j] # sep
         IN  <<SubSeq(s, 1, first - 1)>> \o Split(SubSeq(s, first + 1, Len(s)), sep)
    ELSE <<s>>

\* s.split(sep, 1)
SplitOnce(s, sep) ==
    IF \E i \in DOMAIN s : s[i] = sep
    THEN LET first == CHOOSE i \in DOMAIN s : s[i] = sep /\ \A j \in 1..(i - 1) : s[j] # sep
         IN  <<SubSeq(s, 1, first - 1), SubSeq(s, first + 1, Len(s))>>
    ELSE <<s>>

\* line 35
PublicImageRepo(pub) == Split(pub, ":")[1]

\* line 36 unpacks into exactly two names
PrivateSplits(priv) == Len(Split(priv, ":")) = 2

PrivateImageRepo(priv) == Split(priv, ":")[1]

PrivateImageTag(priv) == Split(priv, ":")[2]

\* lines 39-44
PrivateRegistry(priv) ==
    LET repo == PrivateImageRepo(priv)
    IN  IF Contains(repo, <<"/">>) THEN SplitOnce(repo, "/")[1] ELSE <<>>

PrivateRepoPath(priv) ==
    LET repo == PrivateImageRepo(priv)
    IN  IF Contains(repo, <<"/">>) THEN SplitOnce(repo, "/")[2] ELSE repo

\* private_registry or priv_repo.split('/')[0]
RegistryPayload(priv) ==
    IF PrivateRegistry(priv) # <<>> THEN PrivateRegistry(priv)
    ELSE Split(PrivateImageRepo(priv), "/")[1]

\* private_repo_path if private_registry else priv_repo
RepoPayload(priv) ==
    IF PrivateRegistry(priv) # <<>> THEN PrivateRepoPath(priv)
    ELSE PrivateImageRepo(priv)

\* "repository" if ... else ("image" if ... else ("name" if ... else None))
RepoKey(obj) ==
    IF Has(obj, "repository") THEN "repository"
    ELSE IF Has(obj, "image") THEN "image"
    ELSE IF Has(obj, "name") THEN "name"
    ELSE "None"

\* keys[:-1] and keys[:-2]
DropLast(keys) == IF Len(keys) >= 1 THEN SubSeq(keys, 1, Len(keys) - 1) ELSE <<>>
DropLast2(keys) == IF Len(keys) >= 2 THEN SubSeq(keys, 1, Len(keys) - 2) ELSE <<>>

\* str(index) of enumerate()
IndexKey(index) == <<"0", "1", "2", "3">>[index + 1]

\* the state a call of find_images works on: the overlay built so far, the
\* exception that ended the walk (if any), and the assignments made, each
\* with the path of the object it wrote
WalkStart == [cv |-> EmptyDict, err |-> "none", writes |-> <<>>]

\* the record of one assignment to chart_values: the path that received the
\* object, the branch that wrote it (A..D after the comments of find_images),
\* the path of the dict the branch looked at, and the private image of the call
Entry(at, obj, by, node, priv) ==
    [at |-> at, obj |-> obj, by |-> by, node |-> node, priv |-> priv]

\* an overlay assignment outside any try block: a failure is an exception
WriteOrRaise(st, path, pairs, entry) ==
    LET r == Update(st.cv, path, pairs)
    IN  IF r.err THEN [st EXCEPT !.cv = r.t, !.err = "TypeError"]
        ELSE [st EXCEPT !.cv = r.t, !.writes = Append(@, entry)]

\* lines 67-82: the payload of a matching string under a dict that has one of
\* registry / repository / image / name
LeafPayload(parent_obj, priv) ==
    LET repo_field == IF RepoKey(parent_obj) = "None" THEN "repository"
                      ELSE RepoKey(parent_obj)
    IN  IF Has(parent_obj, "registry")
        THEN SetAll(EmptyDict, << <<"registry", Str(RegistryPayload(priv))>>,
                                  <<repo_field, Str(RepoPayload(priv))>>,
                                  <<"tag", Str(PrivateImageTag(priv))>> >>)
        ELSE SetAll(EmptyDict, << <<repo_field, Str(PrivateImageRepo(priv))>>,
                                  <<"tag", Str(PrivateImageTag(priv))>> >>)

\* lines 88-90 and 128-130: the three flattened keys
FlatPairs(priv) ==
    << <<"imageRegistry", Str(RegistryPayload(priv))>>,
       <<"imageRepository", Str(RepoPayload(priv))>>,
       <<"imageTag", Str(PrivateImageTag(priv))>> >>

\* lines 56-107: a string value that contains the public repository
Leaf(parent_obj, key, current_keys, priv, st) ==
    IF \E f \in {"registry", "repository", "image", "name"} : Has(parent_obj, f)
    THEN IF Len(current_keys) < 2
         THEN [st EXCEPT !.err = "IndexError"]
         ELSE WriteOrRaise(st, DropLast2(current_keys),
                           << <<current_keys[Len(current_keys) - 1],
                                LeafPayload(parent_obj, priv)>> >>,
                           Entry(DropLast(current_keys), LeafPayload(parent_obj, priv),
                                 "A", DropLast(current_keys), priv))
    ELSE IF \/ \E f \in {"imageRegistry", "imageRepository", "imageTag"} : Has(parent_obj, f)
            \/ key \in {"imageRepository", "imageRegistry", "imageTag"}
    THEN WriteOrRaise(st, DropLast(current_keys), FlatPairs(priv),
                      Entry(DropLast(current_keys), SetAll(EmptyDict, FlatPairs(priv)),
                            "B", DropLast(current_keys), priv))
    ELSE IF Has(parent_obj, "repository") \/ key = "repository"
    THEN LET pairs == << <<"repository", Str(PrivateImageRepo(priv))>>,
                         <<"tag", Str(PrivateImageTag(priv))>> >>
         IN  WriteOrRaise(st, DropLast(current_keys), pairs,
                          Entry(DropLast(current_keys), SetAll(EmptyDict, pairs),
                                "C", DropLast(current_keys), priv))
    ELSE LET parent_key == IF Len(current_keys) >= 2
                           THEN current_keys[Len(current_keys) - 1]
                           ELSE current_keys[Len(current_keys)]
             obj == SetAll(EmptyDict, << <<"repository", Str(PrivateImageRepo(priv))>>,
                                         <<"tag", Str(PrivateImageTag(priv))>> >>)
         IN  WriteOrRaise(st, DropLast2(current_keys), << <<parent_key, obj>> >>,
                          Entry(Append(DropLast2(current_keys), parent_key), obj,
                                "D", DropLast(current_keys), priv))

\* variant: the payload keeps the host in the repository field
SplitPayload_FullRepo(repo_key, priv) ==
    SetAll(EmptyDict, << <<"registry", Str(RegistryPayload(priv))>>,
                         <<repo_key, Str(PrivateImageRepo(priv))>>,
                         <<"tag", Str(PrivateImageTag(priv))>> >>)

\* lines 117-121: the payload of a dict with split registry and repository
SplitPayload(repo_key, priv) ==
    SetAll(EmptyDict, << <<"registry", Str(RegistryPayload(priv))>>,
                         <<repo_key, Str(RepoPayload(priv))>>,
                         <<"tag", Str(PrivateImageTag(priv))>> >>)

\* lines 112-115: the dict has string fields registry and repository / image /
\* name that compose to the public repository
SplitMatches(value, pub) ==
    /\ Has(value, "registry")
    /\ RepoKey(value) # "None"
    /\ HasStr(value, "registry")
    /\ HasStr(value, RepoKey(value))
    /\ Get(value, "registry").s \o <<"/">> \o Get(value, RepoKey(value)).s
         = PublicImageRepo(pub)

\* lines 125-127
FlatMatches(value, pub) ==
    /\ HasStr(value, "imageRegistry")
    /\ HasStr(value, "imageRepository")
    /\ Get(value, "imageRegistry").s \o <<"/">> \o Get(value, "imageRepository").s
         = PublicImageRepo(pub)

\* lines 108-135: a dict value; an exception inside the try block is dropped
\* together with the rest of the block
DictValue(value, current_keys, pub, priv, st) ==
    LET rA == Update(st.cv, DropLast(current_keys),
                     << <<current_keys[Len(current_keys)],
                          SplitPayload(RepoKey(value), priv)>> >>)
        stA == IF ~SplitMatches(value, pub) THEN st
               ELSE IF rA.err THEN [st EXCEPT !.cv = rA.t]
               ELSE [st EXCEPT !.cv = rA.t,
                               !.writes = Append(@, Entry(current_keys,
                                    SplitPayload(RepoKey(value), priv),
                                    "A", current_keys, priv))]
        raisedA == SplitMatches(value, pub) /\ rA.err
        rB == Update(stA.cv, DropLast(current_keys), FlatPairs(priv))
    IN  IF raisedA \/ ~FlatMatches(value, pub) THEN stA
        ELSE IF rB.err THEN [stA EXCEPT !.cv = rB.t]
        ELSE [stA EXCEPT !.cv = rB.t,
                         !.writes = Append(@, Entry(DropLast(current_keys),
                                               SetAll(EmptyDict, FlatPairs(priv)),
                                               "B", current_keys, priv))]

RECURSIVE FindImages(_, _, _, _, _)
RECURSIVE DictLoop(_, _, _, _, _, _)
RECURSIVE ListLoop(_, _, _, _, _, _)

\* lines 54-139: the i-th entry of the dict and the entries after it
DictLoop(content, i, pub, priv, st, parent_keys) ==
    IF i > Len(content.keys) \/ st.err # "none" THEN st
    ELSE LET key == content.keys[i]
             value == content.vals[i]
             current_keys == Append(parent_keys, key)
             after ==
               IF value.k = "str" /\ Contains(value.s, PublicImageRepo(pub))
               THEN Leaf(content, key, current_keys, priv, st)
               ELSE IF value.k = "dict"
               THEN FindImages(value, pub, priv,
                               DictValue(value, current_keys, pub, priv, st), current_keys)
               ELSE IF value.k = "list"
               THEN ListLoop(value.items, 1, pub, priv, st, current_keys)
               ELSE st
         IN  DictLoop(content, i + 1, pub, priv, after, parent_keys)

\* lines 137-142: the items of a list, each under its index as key
ListLoop(items, j, pub, priv, st, keys) ==
    IF j > Len(items) \/ st.err # "none" THEN st
    ELSE ListLoop(items, j + 1, pub, priv,
                  FindImages(items[j], pub, priv, st, Append(keys, IndexKey(j - 1))), keys)

\* find_images(content, public_image, private_image, chart_values, parent_keys)
FindImages(content, pub, priv, st, parent_keys) ==
    IF st.err # "none" THEN st
    ELSE IF ~PrivateSplits(priv) THEN [st EXCEPT !.err = "ValueError"]
    ELSE IF content.k = "dict" THEN DictLoop(content, 1, pub, priv, st, parent_keys)
    ELSE IF content.k = "list" THEN ListLoop(content.items, 1, pub, priv, st, parent_keys)
    ELSE st

\* --------------------------------------------- extract_chart_values_image
\* a registry host with a port is three chunks
SegChunks(seg) == IF seg = "localhost:5000" THEN <<"localhost", ":", "5000">> ELSE <<seg>>

RECURSIVE JoinSegs(_)
JoinSegs(segs) ==
    IF Len(segs) = 1 THEN SegChunks(segs[1])
    ELSE SegChunks(segs[1]) \o <<"/">> \o JoinSegs(Tail(segs))

\* the text of an image reference
RefString(ref) ==
    IF ref.tag = "" THEN JoinSegs(ref.segs) ELSE JoinSegs(ref.segs) \o <<":", ref.tag>>

\* a source whose registry host carries a port
PortRef == [segs |-> <<"localhost:5000", "team", "app">>, tag |-> "1.0"]

OverlaySources == ImageRefs \cup {PortRef}

\* dicts that keep registry and repository apart
SplitNodes ==
    { Dict(<<"registry", rk, "tag">>, <<reg, Str(repo), Str(<<"1.0">>)>>) :
        reg \in {Str(<<"quay.io">>), Str(<<"ghcr.io">>), Str(<<"localhost", ":", "5000">>), Scalar},
        rk \in {"repository", "image", "name"},
        repo \in {<<"team", "/", "app">>, <<"org", "/", "app">>} }

\* a repository/tag pair, flattened keys, a plain reference, the repository
\* of another image whose name extends the name of a source, a flattened
\* repository that holds the whole path, a dict with both sets of fields, a
\* reference under a key that is none of the known fields
OtherNodes ==
    { Dict(<<"repository", "tag">>,
           <<Str(<<"quay.io", "/", "team", "/", "app">>), Str(<<"1.0">>)>>),
      Dict(<<"repository", "tag">>, <<Str(<<"docker.io", "/", "web">>), Scalar>>),
      Dict(<<"imageRegistry", "imageRepository", "imageTag">>,
           <<Str(<<"quay.io">>), Str(<<"team", "/", "app">>), Str(<<"1.0">>)>>),
      Str(<<"quay.io", "/", "team", "/", "app", ":", "1.0">>),
      Dict(<<"repository", "tag">>,
           <<Str(<<"quay.io", "/", "team", "/", "app", "-extra">>), Str(<<"1.0">>)>>),
      Dict(<<"imageRepository", "imageTag">>,
           <<Str(<<"quay.io", "/", "team", "/", "app">>), Str(<<"1.0">>)>>),
      Dict(<<"registry", "repository", "imageRegistry", "imageRepository">>,
           <<Str(<<"quay.io">>), Str(<<"team", "/", "app">>),
             Str(<<"quay.io">>), Str(<<"team", "/", "app">>)>>),
      Dict(<<"ref">>, <<Str(<<"quay.io", "/", "team", "/", "app", ":", "1.0">>)>>) }

\* values documents: the node as the document itself, under a key, nested,
\* as a list item, and next to a plain reference to the same image
Documents ==
    SplitNodes
    \cup { n \in OtherNodes : n.k = "dict" }
    \cup { Dict(<<"image">>, <<n>>) : n \in SplitNodes \cup OtherNodes }
    \cup { Dict(<<"a">>, <<Dict(<<"image">>, <<n>>)>>) : n \in SplitNodes \cup OtherNodes }
    \cup { Dict(<<"containers">>, <<List(<<n>>)>>) : n \in SplitNodes \cup OtherNodes }
    \cup { Dict(<<"a">>, <<Dict(<<"img", "ref">>,
              <<n, Str(<<"quay.io", "/", "team", "/", "app", ":", "1.0">>)>>)>>) :
              n \in SplitNodes }

\* lines 165-168: mapping[public_images[i]] = private_images[i] up to the
\* shorter list; a repeated key keeps its place and takes the later value
RECURSIVE MappingFrom(_, _, _, _)
MappingFrom(public_images, private_images, i, mapping) ==
    IF i > Len(public_images) \/ i > Len(private_images) THEN mapping
    ELSE MappingFrom(public_images, private_images, i + 1,
                     SetKey(mapping, public_images[i], private_images[i]))

Mapping(public_images, private_images) ==
    MappingFrom(public_images, private_images, 1, EmptyDict)

OverlayInit ==
    /\ ovl \in { [fn |-> "extract_chart_values_image", content |-> c, sources |-> q,
                  public_images |-> [i \in DOMAIN q |-> RefString(q[i])],
                  private_images |-> [i \in DOMAIN q |-> RefString(PrivateImage(q[i]))],
                  mapping |-> EmptyDict, at |-> "load", i |-> 1, st |-> WalkStart] :
                  c \in Documents,
                  q \in { r \in DistinctSeqs(OverlaySources, NumImages) : r # <<>> } }
    /\ nrm = NoCall /\ gci = NoCall /\ plf = NoCall /\ dgf = NoCall /\ chf = NoCall
    /\ PushIdle
    /\ MoreIdle

\* lines 153-168: load the document, start with an empty overlay, build the mapping
OvlMapping ==
    /\ ovl.at = "load"
    /\ ovl' = [ovl EXCEPT !.mapping = Mapping(ovl.public_images, ovl.private_images),
                          !.at = "loop"]
    /\ UNCHANGED << pushVars, moreVars, nrm, gci, plf, dgf, chf >>

\* variant: the redirections are written into the document that is walked
ContentAfter_InPlace(content, st) ==
    IF st.writes = <<>> THEN content ELSE st.cv

\* lines 24-143: the document after find_images: every assignment of the
\* function goes through _ensure_path(chart_values, ...) into chart_values
\* or into a payload dict created in the call; content, value and parent_obj
\* are only read
ContentAfter(content, st) == content

\* lines 169-170: find_images for the next pair; an exception ends the loop (171-172)
OvlFindImages ==
    /\ ovl.at = "loop"
    /\ ovl.i <= Len(ovl.mapping.keys)
    /\ LET st == FindImages(ovl.content, ovl.mapping.keys[ovl.i], ovl.mapping.vals[ovl.i],
                            ovl.st, <<>>)
       IN  ovl' = [ovl EXCEPT !.st = st,
                              !.content = ContentAfter(ovl.content, st),
                              !.i = ovl.i + 1,
                              !.at = IF st.err # "none" THEN "done" ELSE "loop"]
    /\ UNCHANGED << pushVars, moreVars, nrm, gci, plf, dgf, chf >>

\* lines 174-175: every pair was handled
OvlReturn ==
    /\ ovl.at = "loop"
    /\ ovl.i > Len(ovl.mapping.keys)
    /\ ovl' = [ovl EXCEPT !.at = "done"]
    /\ UNCHANGED << pushVars, moreVars, nrm, gci, plf, dgf, chf >>

OverlayNext ==
    \/ OvlMapping
    \/ OvlFindImages
    \/ OvlReturn

SpecOverlay == OverlayInit /\ [][OverlayNext]_vars

\* the dicts of a document, each with its path (list items under their index)
RECURSIVE NodesOf(_, _)
NodesOf(v, path) ==
    IF v.k = "dict"
    THEN {[path |-> path, node |-> v]}
         \cup UNION { NodesOf(v.vals[i], Append(path, v.keys[i])) : i \in DOMAIN v.keys }
    ELSE IF v.k = "list"
    THEN UNION { NodesOf(v.items[j], Append(path, IndexKey(j - 1))) : j \in DOMAIN v.items }
    ELSE {}

\* the node has a string registry and a string field f that together name
\* the source repository
IsSchemaA(node, f, source) ==
    /\ HasStr(node, "registry")
    /\ HasStr(node, f)
    /\ Get(node, "registry").s \o <<"/">> \o Get(node, f).s = JoinSegs(source.segs)

\* registry = destination host, f = destination repository path, tag = destination tag
SchemaAOverlay(f, source) ==
    LET dst == PrivateImage(source)
    IN  Dict(<<"registry", f, "tag">>,
             <<Str(<<dst.segs[1]>>), Str(JoinSegs(Tail(dst.segs))), Str(<<dst.tag>>)>>)

\* C20: for every dict node at path P with a string registry and a string
\* repository / image / name field that together equal the source repository,
\* find_images writes at P the overlay object {registry: destination host,
\* that field: destination repository path, tag: destination tag}.
C20_SchemaAOverlayAtNode ==
    ovl.at = "done" =>
        \A i \in DOMAIN ovl.sources, n \in NodesOf(ovl.content, <<>>),
           f \in {"repository", "image", "name"} :
            IsSchemaA(n.node, f, ovl.sources[i]) =>
                \E w \in DOMAIN ovl.st.writes :
                    /\ ovl.st.writes[w].at = n.path
                    /\ ovl.st.writes[w].obj = SchemaAOverlay(f, ovl.sources[i])

\* every source of the call carries a tag
AllTagged == \A i \in DOMAIN ovl.sources : ovl.sources[i].tag # ""

\* the node has a string repository that is the whole source path, and no registry
IsSchemaC(node, source) ==
    /\ HasStr(node, "repository")
    /\ ~Has(node, "registry")
    /\ Get(node, "repository").s = JoinSegs(source.segs)

\* repository = destination host/path, tag = destination tag
SchemaCOverlay(source) ==
    LET dst == PrivateImage(source)
    IN  Dict(<<"repository", "tag">>, <<Str(JoinSegs(dst.segs)), Str(<<dst.tag>>)>>)

\* C21: for every dict node, at any depth including the top level of the value
\* tree, that has a repository key and no registry key and whose repository
\* equals the full source path, find_images writes at that same node
\* {repository: full destination path, tag: destination tag}.
C21_SchemaCOverlayAtNode ==
    (ovl.at = "done" /\ AllTagged) =>
        \A i \in DOMAIN ovl.sources, n \in NodesOf(ovl.content, <<>>) :
            IsSchemaC(n.node, ovl.sources[i]) =>
                \E w \in DOMAIN ovl.st.writes :
                    /\ ovl.st.writes[w].at = n.path
                    /\ ovl.st.writes[w].obj = SchemaCOverlay(ovl.sources[i])

\* the node has a string repository, no registry, and the repository is
\* another reference that contains the source path
ContainsOnly(node, source) ==
    /\ HasStr(node, "repository")
    /\ ~Has(node, "registry")
    /\ Get(node, "repository").s # JoinSegs(source.segs)
    /\ Contains(Get(node, "repository").s, JoinSegs(source.segs))

\* C22: a node whose repository is a different reference that merely contains
\* the source path is not rewritten by a schema branch to the destination of
\* the source: no branch other than the fallback writes for that node.
C22_SchemaCOnlyOnEquality ==
    \A i \in DOMAIN ovl.sources, n \in NodesOf(ovl.content, <<>>) :
        ContainsOnly(n.node, ovl.sources[i]) =>
            \A w \in DOMAIN ovl.st.writes :
                (/\ ovl.st.writes[w].node = n.path
                 /\ ovl.st.writes[w].priv = RefString(PrivateImage(ovl.sources[i])))
                    => ovl.st.writes[w].by = "D"

\* the dict holds string fields imageRegistry and imageRepository that
\* together name the source repository
IsFlatCompare(node, source) ==
    /\ HasStr(node, "imageRegistry")
    /\ HasStr(node, "imageRepository")
    /\ Get(node, "imageRegistry").s \o <<"/">> \o Get(node, "imageRepository").s
         = JoinSegs(source.segs)

\* the dict has none of registry / repository / image / name, and one of its
\* flattened fields is a string that contains the source repository
IsFlatLeaf(node, source) ==
    /\ node.k = "dict"
    /\ \A f \in {"registry", "repository", "image", "name"} : ~Has(node, f)
    /\ \E f \in {"imageRegistry", "imageRepository", "imageTag"} :
          /\ HasStr(node, f)
          /\ Contains(Get(node, f).s, JoinSegs(source.segs))

\* imageRegistry = destination host, imageRepository = destination path,
\* imageTag = destination tag
SchemaBOverlay(source) ==
    LET dst == PrivateImage(source)
    IN  Dict(<<"imageRegistry", "imageRepository", "imageTag">>,
             <<Str(<<dst.segs[1]>>), Str(JoinSegs(Tail(dst.segs))), Str(<<dst.tag>>)>>)

\* C23: when the dict at path P holds a flattened triple that refers to the
\* source, by a leaf string or by imageRegistry + "/" + imageRepository,
\* find_images writes the three flattened keys of the destination at P.
C23_SchemaBOverlayAtNode ==
    (ovl.at = "done" /\ AllTagged) =>
        \A i \in DOMAIN ovl.sources, n \in NodesOf(ovl.content, <<>>) :
            (IsFlatCompare(n.node, ovl.sources[i]) \/ IsFlatLeaf(n.node, ovl.sources[i])) =>
                \E w \in DOMAIN ovl.st.writes :
                    /\ ovl.st.writes[w].at = n.path
                    /\ ovl.st.writes[w].obj = SchemaBOverlay(ovl.sources[i])

\* C24: for each pair at most one schema is applied to a node: no node
\* receives writes from two different schemas, and no tree location receives
\* two overlay entries.
C24_OneSchemaPerNode ==
    NoDup(ovl.private_images) =>
        \A w1, w2 \in DOMAIN ovl.st.writes :
            (w1 # w2 /\ ovl.st.writes[w1].priv = ovl.st.writes[w2].priv) =>
                /\ ovl.st.writes[w1].node = ovl.st.writes[w2].node
                      => ovl.st.writes[w1].by = ovl.st.writes[w2].by
                /\ ovl.st.writes[w1].at # ovl.st.writes[w2].at

\* the strings of a document, each with its path and the container that holds it
RECURSIVE LeavesOf(_, _)
LeavesOf(v, path) ==
    IF v.k = "dict"
    THEN UNION { IF v.vals[i].k = "str"
                 THEN {[path |-> Append(path, v.keys[i]), s |-> v.vals[i].s, parent |-> v]}
                 ELSE LeavesOf(v.vals[i], Append(path, v.keys[i])) : i \in DOMAIN v.keys }
    ELSE IF v.k = "list"
    THEN UNION { IF v.items[j].k = "str"
                 THEN {[path |-> Append(path, IndexKey(j - 1)), s |-> v.items[j].s,
                        parent |-> v]}
                 ELSE LeavesOf(v.items[j], Append(path, IndexKey(j - 1))) :
                 j \in DOMAIN v.items }
    ELSE {}

\* the container holds none of the fields of the schemas A, B and C
NoSchemaFields(parent) ==
    parent.k = "dict" =>
        \A f \in {"registry", "repository", "image", "name",
                   "imageRegistry", "imageRepository", "imageTag"} : ~Has(parent, f)

IsPrefix(p, q) == Len(p) <= Len(q) /\ SubSeq(q, 1, Len(p)) = p

\* C25: every leaf string of the value tree, under a dict or inside a list,
\* that contains the source repository and whose enclosing node has none of
\* the schemas A-C produces a fallback object {repository: destination path,
\* tag: destination tag} at a key that encloses it.
C25_FallbackForEveryLeaf ==
    (ovl.at = "done" /\ ovl.st.err = "none") =>
        \A i \in DOMAIN ovl.sources, l \in LeavesOf(ovl.content, <<>>) :
            (Contains(l.s, JoinSegs(ovl.sources[i].segs)) /\ NoSchemaFields(l.parent)) =>
                \E w \in DOMAIN ovl.st.writes :
                    /\ IsPrefix(ovl.st.writes[w].at, l.path)
                    /\ ovl.st.writes[w].obj = SchemaCOverlay(ovl.sources[i])

\* ------------------------------------------------- main.process_helm_chart
\* extract_chart_values_image as a whole: find_images for the pairs of the
\* mapping in order, the first exception ends the loop; the overlay built so
\* far is returned
RECURSIVE ExtractLoop(_, _, _, _)
ExtractLoop(content, mapping, i, st) ==
    IF i > Len(mapping.keys) \/ st.err # "none" THEN st
    ELSE ExtractLoop(content, mapping, i + 1,
                     FindImages(content, mapping.keys[i], mapping.vals[i], st, <<>>))

ExtractChartValuesImage(content, public_images, private_images) ==
    ExtractLoop(content, Mapping(public_images, private_images), 1, WalkStart).cv

\* the images of the charts: their names differ, so do their destinations
ChartSources ==
    { [segs |-> <<"quay.io", "team", "app">>, tag |-> "1.0"],
      [segs |-> <<"ghcr.io", "org", "api">>,  tag |-> "2.0"],
      [segs |-> <<"docker.io", "web">>,       tag |-> ""] }

\* values.yaml of charts that use one or two of the images
QuayPair == Dict(<<"repository", "tag">>,
                 <<Str(<<"quay.io", "/", "team", "/", "app">>), Str(<<"1.0">>)>>)
GhcrSplit == Dict(<<"registry", "repository", "tag">>,
                  <<Str(<<"ghcr.io">>), Str(<<"org", "/", "api">>), Str(<<"2.0">>)>>)
WebPair == Dict(<<"repository">>, <<Str(<<"docker.io", "/", "web">>)>>)

ChartDocuments ==
    { Dict(<<"image", "sidecar">>, <<QuayPair, Dict(<<"image">>, <<GhcrSplit>>)>>),
      Dict(<<"sidecar", "image">>, <<Dict(<<"image">>, <<GhcrSplit>>), QuayPair>>),
      Dict(<<"app", "web">>, <<Dict(<<"image">>, <<QuayPair>>),
                                Dict(<<"image">>, <<WebPair>>)>>) }

\* variant: a recorded push failure ends the chart before the overlay
AfterPushImages_AbortOnFailure(failed_push) ==
    IF failed_push # <<>> THEN "abort" ELSE "push_chart"

\* lines 93-96: push_images_to_ecr returned; whatever it recorded as failed,
\* the chart push comes next
AfterPushImages(failed_push) == "push_chart"

\* line 92: if push_images or (not scan_only and not push_images)
WillPush(scan_only, push_images) == push_images \/ (~scan_only /\ ~push_images)

ChartInit ==
    /\ chf \in { [fn |-> "process_helm_chart", at |-> "version",
                  scan_only |-> so, push_images |-> pi, content |-> c, sources |-> q,
                  public_addon_chart_images |-> <<>>,
                  private_addon_chart_images |-> <<>>,
                  failed_pull_addon_chart_images |-> <<>>,
                  failed_push_addon_chart_images |-> <<>>,
                  pushed |-> {}, k |-> 1,
                  chart_values |-> EmptyDict, written |-> FALSE,
                  overlays |-> <<>>,
                  raised |-> "none", ret |-> "none"] :
                  so \in BOOLEAN, pi \in BOOLEAN, c \in ChartDocuments,
                  q \in DistinctSeqs(ChartSources, NumImages) }
    /\ nrm = NoCall /\ gci = NoCall /\ plf = NoCall /\ dgf = NoCall /\ ovl = NoCall
    /\ PushIdle
    /\ MoreIdle

\* the except clauses of lines 48-51 and 129-132: return None, str(e)
ChartRaise(step) == [chf EXCEPT !.at = "returned", !.raised = step, !.ret = "None"]

\* lines 41-51
ChGetRemoteVersion ==
    /\ chf.at = "version"
    /\ \E o \in {"ok", "none", "raise"} :
         chf' = IF o = "ok" THEN [chf EXCEPT !.at = "download"]
                ELSE IF o = "none" THEN [chf EXCEPT !.at = "returned", !.ret = "None"]
                ELSE ChartRaise("version")
    /\ UNCHANGED << pushVars, moreVars, nrm, gci, plf, dgf, ovl >>

\* lines 54-58
ChDownloadChart ==
    /\ chf.at = "download"
    /\ \E o \in {"ok", "none", "raise"} :
         chf' = IF o = "ok" THEN [chf EXCEPT !.at = "images"]
                ELSE IF o = "none" THEN [chf EXCEPT !.at = "returned", !.ret = "helm_chart"]
                ELSE ChartRaise("download")
    /\ UNCHANGED << pushVars, moreVars, nrm, gci, plf, dgf, ovl >>

\* lines 61-75: registry url, get_chart_images, pulling_chart_images; an
\* image whose pull failed stays in public_addon_chart_images
ChImages ==
    /\ chf.at = "images"
    /\ \E o \in {"ok", "raise"}, failed \in SUBSET (DOMAIN chf.sources) :
         chf' = IF o = "raise" THEN ChartRaise("images")
                ELSE [chf EXCEPT
                        !.public_addon_chart_images =
                            [i \in DOMAIN chf.sources |-> RefString(chf.sources[i])],
                        !.failed_pull_addon_chart_images =
                            SelectSeq([i \in DOMAIN chf.sources |->
                                         IF i \in failed THEN RefString(chf.sources[i])
                                         ELSE <<>>], LAMBDA x : x # <<>>),
                        !.at = "pre_overlay"]
    /\ UNCHANGED << pushVars, moreVars, nrm, gci, plf, dgf, ovl >>

\* one call of extract_chart_values_image: where it was made and the number
\* of pairs of its mapping
OverlayCall(at, public_images, private_images) ==
    [at |-> at,
     pairs |-> IF Len(public_images) <= Len(private_images) THEN Len(public_images)
               ELSE Len(private_images)]

\* variant: HelmChart computes the destinations before any image is pushed
ComputePrivateRefs_BeforePush(sources) ==
    [raised |-> FALSE, refs |-> [i \in DOMAIN sources |-> RefString(PrivateImage(sources[i]))]]

\* line 82: helm_chart.compute_private_refs(); HelmChart defines no such
\* method, the call raises AttributeError
ComputePrivateRefs(sources) == [raised |-> TRUE, refs |-> <<>>]

\* lines 79-90: the AttributeError of line 82 is caught and logged, nothing
\* else of the block runs
ChPrePushOverlay ==
    /\ chf.at = "pre_overlay"
    /\ LET r == ComputePrivateRefs(chf.sources)
           next == IF WillPush(chf.scan_only, chf.push_images) THEN "push_images"
                   ELSE "overlay"
       IN  chf' = IF r.raised THEN [chf EXCEPT !.at = next]
                  ELSE [chf EXCEPT
                          !.private_addon_chart_images = r.refs,
                          !.overlays = Append(@, OverlayCall("pre_push",
                                          chf.public_addon_chart_images, r.refs)),
                          !.at = next]
    /\ UNCHANGED << pushVars, moreVars, nrm, gci, plf, dgf, ovl >>

\* line 94, push_images_to_ecr: one image of its loop; the destination is
\* appended first (chart.py 1055), then the image ends pushed, recorded as
\* failed, or with an exception of a step outside the attempt loop
ChPushImage ==
    /\ chf.at = "push_images"
    /\ chf.k <= Len(chf.public_addon_chart_images)
    /\ LET dst == RefString(PrivateImage(chf.sources[chf.k])) IN
       \E o \in {"pushed", "failed", "raise"} :
         chf' = IF o = "raise"
                THEN [ChartRaise("push_images") EXCEPT
                        !.private_addon_chart_images = Append(@, dst)]
                ELSE [chf EXCEPT
                        !.private_addon_chart_images = Append(@, dst),
                        !.failed_push_addon_chart_images =
                            IF o = "failed" THEN Append(@, dst) ELSE @,
                        !.pushed = IF o = "pushed" THEN @ \cup {dst} ELSE @,
                        !.k = chf.k + 1]
    /\ UNCHANGED << pushVars, moreVars, nrm, gci, plf, dgf, ovl >>

\* push_images_to_ecr returns
ChPushImagesDone ==
    /\ chf.at = "push_images"
    /\ chf.k > Len(chf.public_addon_chart_images)
    /\ chf' = IF AfterPushImages(chf.failed_push_addon_chart_images) = "abort"
              THEN ChartRaise("failed_images")
              ELSE [chf EXCEPT !.at = "push_chart"]
    /\ UNCHANGED << pushVars, moreVars, nrm, gci, plf, dgf, ovl >>

\* line 96
ChPushChart ==
    /\ chf.at = "push_chart"
    /\ \E o \in {"ok", "raise"} :
         chf' = IF o = "ok" THEN [chf EXCEPT !.at = "overlay"]
                ELSE ChartRaise("push_chart")
    /\ UNCHANGED << pushVars, moreVars, nrm, gci, plf, dgf, ovl >>

\* lines 100-105: the overlay of all pairs is extracted and written
ChOverlay ==
    /\ chf.at = "overlay"
    /\ \E o \in {"ok", "raise"} :
         chf' = IF o = "raise" THEN ChartRaise("overlay")
                ELSE [chf EXCEPT
                        !.chart_values =
                            ExtractChartValuesImage(chf.content,
                                                    chf.public_addon_chart_images,
                                                    chf.private_addon_chart_images),
                        !.written = TRUE,
                        !.overlays = Append(@, OverlayCall("final",
                                        chf.public_addon_chart_images,
                                        chf.private_addon_chart_images)),
                        !.at = "summary"]
    /\ UNCHANGED << pushVars, moreVars, nrm, gci, plf, dgf, ovl >>

\* lines 108-128
ChSummary ==
    /\ chf.at = "summary"
    /\ chf' = [chf EXCEPT !.at = "returned", !.ret = "helm_chart"]
    /\ UNCHANGED << pushVars, moreVars, nrm, gci, plf, dgf, ovl >>

ChartNext ==
    \/ ChGetRemoteVersion
    \/ ChDownloadChart
    \/ ChImages
    \/ ChPrePushOverlay
    \/ ChPushImage
    \/ ChPushImagesDone
    \/ ChPushChart
    \/ ChOverlay
    \/ ChSummary

SpecChart == ChartInit /\ [][ChartNext]_vars

\* the strings of an overlay
RECURSIVE StrLeaves(_)
StrLeaves(v) ==
    IF v.k = "str" THEN {v.s}
    ELSE IF v.k = "dict" THEN UNION { StrLeaves(v.vals[i]) : i \in DOMAIN v.vals }
    ELSE IF v.k = "list" THEN UNION { StrLeaves(v.items[j]) : j \in DOMAIN v.items }
    ELSE {}

\* the overlay names the repository path of the destination
Redirects(overlay, dst) ==
    \E str \in StrLeaves(overlay) : Contains(str, JoinSegs(Tail(dst.segs)))

\* C11: the overlay written by process_helm_chart holds no entry that
\* redirects to the destination of an image recorded in
\* failed_push_addon_chart_images, or of an image whose pull failed and that
\* was never pushed.
C11_OnlySucceededInOverlay ==
    chf.written =>
        \A i \in DOMAIN chf.private_addon_chart_images :
            (\/ \E j \in DOMAIN chf.failed_push_addon_chart_images :
                   chf.failed_push_addon_chart_images[j] = chf.private_addon_chart_images[i]
             \/ /\ \E j \in DOMAIN chf.failed_pull_addon_chart_images :
                      chf.failed_pull_addon_chart_images[j] = chf.public_addon_chart_images[i]
                /\ chf.private_addon_chart_images[i] \notin chf.pushed)
            => ~Redirects(chf.chart_values, PrivateImage(chf.sources[i]))

\* C12: when one image of the chart is recorded as failed and another was
\* pushed, the recorded failure does not end the chart: unless a step raises
\* an exception, process_helm_chart writes the overlay and returns the chart.
C12_OverlayWrittenDespiteFailure ==
    /\ chf.failed_push_addon_chart_images # <<>> /\ chf.k > Len(chf.sources)
          => chf.at # "push_images" \/ chf.raised = "none"
    /\ chf.at = "returned" /\ chf.failed_push_addon_chart_images # <<>> /\ chf.pushed # {}
          => /\ chf.raised \in {"none", "push_images", "push_chart", "overlay"}
             /\ chf.raised = "none" => chf.written /\ chf.ret = "helm_chart"

\* one image failed, the other was pushed, and the overlay was written with
\* an entry for the pushed one
C12_Witness ==
    /\ chf.at = "returned"
    /\ chf.sources = << [segs |-> <<"quay.io", "team", "app">>, tag |-> "1.0"],
                        [segs |-> <<"ghcr.io", "org", "api">>, tag |-> "2.0"] >>
    /\ chf.failed_push_addon_chart_images = << <<"ecr", "/", "chart", "/", "app", ":", "1.0">> >>
    /\ chf.pushed = { <<"ecr", "/", "chart", "/", "api", ":", "2.0">> }
    /\ chf.written
    /\ chf.ret = "helm_chart"
    /\ Redirects(chf.chart_values, PrivateImage(chf.sources[2]))
\* push_images_to_ecr has a result for every image of the chart
ResultsKnown ==
    \A i \in DOMAIN chf.public_addon_chart_images :
        LET dst == RefString(PrivateImage(chf.sources[i]))
        IN  dst \in chf.pushed \/ SeqContains(chf.failed_push_addon_chart_images, dst)

NumAddons == 2
MaxSteps == 2

\* Python's None, next to the strings Str(<<...>>)
None == [k |-> "none"]

\* x or d
OrElse(x, d) == IF x.k = "str" /\ x.s # <<>> THEN x ELSE d

\* chart.py 100-104: a HelmChart starts with no failure and not logged in
NewHelmChart ==
    [ public_ecr_authenticated |-> FALSE,
      private_ecr_authenticated |-> FALSE,
      dockerhub_authenticated |-> FALSE,
      failed_pull_addon_chart_images |-> FALSE,    \* the list is not empty
      failed_push_addon_chart_images |-> FALSE,    \* the list is not empty
      failed_commands |-> <<>> ]                   \* the descriptions, in order

\* the registries of the three flags
RegistryHosts == {"public.ecr.aws", "private_ecr_url", "docker.io"}

AuthFlag(hc, host) ==
    IF host = "public.ecr.aws" THEN hc.public_ecr_authenticated
    ELSE IF host = "private_ecr_url" THEN hc.private_ecr_authenticated
    ELSE hc.dockerhub_authenticated

SetAuthFlag(hc, host) ==
    IF host = "public.ecr.aws" THEN [hc EXCEPT !.public_ecr_authenticated = TRUE]
    ELSE IF host = "private_ecr_url" THEN [hc EXCEPT !.private_ecr_authenticated = TRUE]
    ELSE [hc EXCEPT !.dockerhub_authenticated = TRUE]

\* variant: the flag is not consulted
LoginNeeded_Always(hc, host) == TRUE

\* chart.py 508, 513 and 219: the login is skipped when the flag of this
\* HelmChart is set
LoginNeeded(hc, host) == ~AuthFlag(hc, host)

\* main.py 108-125: failed dependency builds are dropped from failed_commands,
\* then one message for the failed pulls, one for the failed pushes, one for
\* the last failed command that is left
ErrorText(hc) ==
    LET cmds == SelectSeq(hc.failed_commands, LAMBDA c : c # "Failed to build chart dependencies")
    IN  (IF hc.failed_pull_addon_chart_images THEN <<"Failed pulls">> ELSE <<>>)
        \o (IF hc.failed_push_addon_chart_images THEN <<"Failed pushes">> ELSE <<>>)
        \o (IF cmds # <<>> THEN <<"Cmd error">> ELSE <<>>)

\* variant: an exception of the chart leaves process_helm_chart
OnException_Propagate(e) == [raised |-> TRUE, hc |-> FALSE, err |-> None]

\* main.py 48-51 and 129-132: except Exception: return None, str(e)
OnException(e) == [raised |-> FALSE, hc |-> FALSE, err |-> Str(e)]

\* main.py 230-245: the summary entry of a result
SummaryEntry(addon, result) ==
    IF result.hc THEN [name |-> addon, error |-> OrElse(result.err, Str(<<>>))]
    ELSE [name |-> addon, error |-> OrElse(result.err, Str(<<"unknown error">>))]

\* the text of an exception may be empty
ExceptionTexts == { <<"e">>, <<>> }

\* the frames that main leaves alone
auxRun == << nrm, gci, plf, dgf, ovl, chf, ext, ath, cln, pul >>

RunInit ==
    /\ run \in { [fn |-> "main", addons |-> n, i |-> 1, at |-> "loop",
                  hc |-> NewHelmChart, k |-> 0,
                  result |-> [raised |-> FALSE, hc |-> FALSE, err |-> None],
                  summaries |-> <<>>] : n \in 1..NumAddons }
    /\ nrm = NoCall /\ gci = NoCall /\ plf = NoCall /\ dgf = NoCall /\ ovl = NoCall
    /\ chf = NoCall /\ ext = NoCall /\ ath = NoCall /\ cln = NoCall /\ pul = NoCall
    /\ PushIdle

\* main.py 198-216: a HelmChart of its own for the next addon
RunNewChart ==
    /\ run.at = "loop"
    /\ run.i <= run.addons
    /\ run' = [run EXCEPT !.hc = NewHelmChart, !.k = 0, !.at = "version"]
    /\ UNCHANGED << pushVars, auxRun >>

\* main.py 40-51: get_remote_version
RunGetRemoteVersion ==
    /\ run.at = "version"
    /\ \E o \in {"ok", "none", "raise"}, e \in ExceptionTexts :
         run' = IF o = "ok" THEN [run EXCEPT !.at = "download"]
                ELSE IF o = "none"
                THEN [run EXCEPT !.at = "result",
                        !.result = [raised |-> FALSE, hc |-> FALSE,
                                    err |-> Str(<<"Failed to get version">>)]]
                ELSE [run EXCEPT !.at = "result", !.result = OnException(e)]
    /\ UNCHANGED << pushVars, auxRun >>

\* main.py 53-58: download_chart; without a chart file the chart is returned
\* with a message
RunDownloadChart ==
    /\ run.at = "download"
    /\ \E o \in {"ok", "none", "raise"}, e \in ExceptionTexts :
         run' = IF o = "ok" THEN [run EXCEPT !.at = "images"]
                ELSE IF o = "none"
                THEN [run EXCEPT !.at = "result",
                        !.hc.failed_commands = Append(@, "Failed to pull chart"),
                        !.result = [raised |-> FALSE, hc |-> TRUE,
                                    err |-> Str(<<"Failed to download chart">>)]]
                ELSE [run EXCEPT !.at = "result", !.result = OnException(e)]
    /\ UNCHANGED << pushVars, auxRun >>

\* a pull, a push or a command of the chart fails and is recorded
\* (chart.py 133-146, 188-197, 284-293, 907 and the two failed lists)
RunFailure ==
    /\ run.at = "images"
    /\ run.k < MaxSteps
    /\ \E f \in {"pull", "push", "Failed to build chart dependencies", "Failed to run"} :
         run' = IF f = "pull"
                THEN [run EXCEPT !.k = @ + 1, !.hc.failed_pull_addon_chart_images = TRUE]
                ELSE IF f = "push"
                THEN [run EXCEPT !.k = @ + 1, !.hc.failed_push_addon_chart_images = TRUE]
                ELSE [run EXCEPT !.k = @ + 1, !.hc.failed_commands = Append(@, f)]
    /\ UNCHANGED << pushVars, auxRun >>

\* main.py 59-132: the rest of process_helm_chart ends with the summary
\* status or with an exception
RunReturn ==
    /\ run.at = "images"
    /\ \E o \in {"ok", "raise"}, e \in ExceptionTexts :
         run' = IF o = "ok"
                THEN [run EXCEPT !.at = "result",
                        !.result = [raised |-> FALSE, hc |-> TRUE,
                                    err |-> OrElse(Str(ErrorText(run.hc)), None)]]
                ELSE [run EXCEPT !.at = "result", !.result = OnException(e)]
    /\ UNCHANGED << pushVars, auxRun >>

\* main.py 219-245: the result is a pair, one summary entry is appended and
\* the loop goes on; an exception out of process_helm_chart would end main
RunSummary ==
    /\ run.at = "result"
    /\ run' = IF run.result.raised THEN [run EXCEPT !.at = "aborted"]
              ELSE [run EXCEPT !.summaries = Append(@, SummaryEntry(run.i, run.result)),
                               !.i = @ + 1, !.at = "loop"]
    /\ UNCHANGED << pushVars, auxRun >>

\* main.py 331-342: the summaries are printed
RunPrint ==
    /\ run.at = "loop"
    /\ run.i > run.addons
    /\ run' = [run EXCEPT !.at = "done"]
    /\ UNCHANGED << pushVars, auxRun >>

RunNext ==
    \/ RunNewChart
    \/ RunGetRemoteVersion
    \/ RunDownloadChart
    \/ RunFailure
    \/ RunReturn
    \/ RunSummary
    \/ RunPrint

SpecRun == RunInit /\ [][RunNext]_vars

\* ------------------------------------- main.main and the registry logins
auxAuth == << nrm, gci, plf, dgf, ovl, chf, ext, run, cln, pul >>

AuthInit ==
    /\ ath \in { [fn |-> "main", addons |-> n, i |-> 1, at |-> "loop",
                  hc |-> NewHelmChart, k |-> 0, skipped |-> {},
                  logins |-> <<>>] : n \in 1..NumAddons }
    /\ nrm = NoCall /\ gci = NoCall /\ plf = NoCall /\ dgf = NoCall /\ ovl = NoCall
    /\ chf = NoCall /\ ext = NoCall /\ run = NoCall /\ cln = NoCall /\ pul = NoCall
    /\ PushIdle

\* main.py 198-216: a HelmChart of its own for the next addon
AuthNewChart ==
    /\ ath.at = "loop"
    /\ ath.i <= ath.addons
    /\ ath' = [ath EXCEPT !.hc = NewHelmChart, !.k = 0, !.skipped = {}, !.at = "chart"]
    /\ UNCHANGED << pushVars, auxAuth >>

\* chart.py 496-519, called for an image of the chart: logout and login unless
\* the flag is set; the flag is set whatever docker login returned;
\* CalledProcessError of the token command leaves authenticate_ecr and is
\* caught (chart.py 975, 986, 1016) or ends the chart (1131, 1220)
AuthenticateEcr_Chart ==
    /\ ath.at = "chart"
    /\ ath.k < MaxSteps
    /\ \E is_public \in BOOLEAN, o \in Outcomes, caught \in BOOLEAN :
         LET host == IF is_public THEN "public.ecr.aws" ELSE "private_ecr_url"
             asked == [ath EXCEPT !.k = @ + 1]
         IN  /\ (o # "raise" => caught)
             /\ ath' = IF ~LoginNeeded(ath.hc, host)
                       THEN [asked EXCEPT !.skipped = @ \cup {host}]
                       ELSE IF o = "raise"
                       THEN IF caught THEN asked
                            ELSE [asked EXCEPT !.i = @ + 1, !.at = "loop"]
                       ELSE [asked EXCEPT
                               !.hc = SetAuthFlag(@, host),
                               !.logins = Append(@, [chart |-> ath.i, host |-> host,
                                                     result |-> o])]
    /\ UNCHANGED << pushVars, auxAuth >>

\* (skipped: the hosts whose login this chart has left out because of the flag)
\* chart.py 215-230: nothing with the flag set or without credentials;
\* otherwise docker login, its result is not looked at, and the flag is set
LoginDockerhub ==
    /\ ath.at = "chart"
    /\ ath.k < MaxSteps
    /\ \E credentials \in BOOLEAN, o \in {"ok", "fail"} :
         LET asked == [ath EXCEPT !.k = @ + 1]
         IN  ath' = IF ~LoginNeeded(ath.hc, "docker.io")
                    THEN [asked EXCEPT !.skipped = @ \cup {"docker.io"}]
                    ELSE IF ~credentials THEN asked
                    ELSE [asked EXCEPT
                            !.hc = SetAuthFlag(@, "docker.io"),
                            !.logins = Append(@, [chart |-> ath.i, host |-> "docker.io",
                                                  result |-> o])]
    /\ UNCHANGED << pushVars, auxAuth >>

\* process_helm_chart returns, the loop of main goes to the next addon
AuthChartDone ==
    /\ ath.at = "chart"
    /\ ath' = [ath EXCEPT !.i = @ + 1, !.at = "loop"]
    /\ UNCHANGED << pushVars, auxAuth >>

\* every addon was handled
AuthEnd ==
    /\ ath.at = "loop"
    /\ ath.i > ath.addons
    /\ ath' = [ath EXCEPT !.at = "done"]
    /\ UNCHANGED << pushVars, auxAuth >>

AuthNext ==
    \/ AuthNewChart
    \/ AuthenticateEcr_Chart
    \/ LoginDockerhub
    \/ AuthChartDone
    \/ AuthEnd

SpecAuth == AuthInit /\ [][AuthNext]_vars

\* C28: across all images and charts of one run a login is performed at most
\* once per registry host once it has succeeded.
C28_OneLoginPerHostPerRun ==
    \A a, b \in DOMAIN ath.logins :
        (a < b /\ ath.logins[a].host = ath.logins[b].host)
            => ath.logins[a].result # "ok"

\* C28, as the code has it: the three flags belong to the HelmChart, and main
\* makes a HelmChart for every addon; within one chart a registry host is
\* logged in to at most once, whatever docker login returned.
C28_OneLoginPerHostPerChart ==
    \A a, b \in DOMAIN ath.logins :
        (a # b /\ ath.logins[a].host = ath.logins[b].host)
            => ath.logins[a].chart # ath.logins[b].chart

\* the second chart logged in to the private registry again and then left
\* out a further login to it
C28_Witness ==
    /\ ath.fn = "main"
    /\ ath.i = 2
    /\ "private_ecr_url" \in ath.skipped
    /\ ath.logins = << [chart |-> 1, host |-> "private_ecr_url", result |-> "ok"],
                       [chart |-> 2, host |-> "private_ecr_url", result |-> "ok"] >>

\* the entry of the addon that main has just summarised
LastEntry == run.summaries[run.i - 1]

\* process_helm_chart never raises, and the addons summarised so far have one
\* entry each, in order
OneEntryPerAddon ==
    /\ run.at # "aborted"
    /\ ~run.result.raised
    /\ Len(run.summaries) = run.i - 1
    /\ \A j \in DOMAIN run.summaries : run.summaries[j].name = j
    /\ run.at = "done" => Len(run.summaries) = run.addons

MaxCalls == 3

\* chart.py 169 and 260: timeout=120
DefaultTimeout == 120

\* the ways HelmChart starts a process: run_docker, run_helm, run_command,
\* and the subprocess.run of aws ecr get-login-password (check=True)
Wrappers == {"run_docker", "run_helm", "run_command", "get_login_password"}

\* what the process does: it ends with status 0, ends with another status,
\* does not end, or its program is not on PATH
Behaviours == {"exit0", "nonzero", "hangs", "not_found"}

\* the timeout that subprocess.run is given, if any
TimeoutOf(w) == IF w \in {"run_docker", "run_helm"} THEN {DefaultTimeout} ELSE {}

\* what the caller gets: the output, None, an exception, or nothing because
\* subprocess.run does not return
CallResult(w, b) ==
    IF w \in {"run_docker", "run_helm"}
    THEN IF b = "exit0" THEN "stdout" ELSE "None"
    ELSE IF w = "run_command"
    THEN IF b = "exit0" THEN "stdout"
         ELSE IF b = "hangs" THEN "blocked"
         ELSE "None"
    ELSE IF b = "exit0" THEN "stdout"
         ELSE IF b = "hangs" THEN "blocked"
         ELSE IF b = "nonzero" THEN "CalledProcessError"
         ELSE "FileNotFoundError"

auxExt == << nrm, gci, plf, dgf, ovl, chf, run, ath, cln, pul >>

ExtInit ==
    /\ ext = [fn |-> "HelmChart", at |-> "idle", w |-> "none", b |-> "none",
              timeout |-> {}, failed_commands |-> 0, log |-> <<>>]
    /\ nrm = NoCall /\ gci = NoCall /\ plf = NoCall /\ dgf = NoCall /\ ovl = NoCall
    /\ chf = NoCall /\ run = NoCall /\ ath = NoCall /\ cln = NoCall /\ pul = NoCall
    /\ PushIdle

\* subprocess.run starts the process
ExtStart ==
    /\ ext.at = "idle"
    /\ Len(ext.log) < MaxCalls
    /\ \E w \in Wrappers, b \in Behaviours :
         ext' = [ext EXCEPT !.at = "running", !.w = w, !.b = b, !.timeout = TimeoutOf(w)]
    /\ UNCHANGED << pushVars, auxExt >>

\* the wrapper returns the output or None; a failure is appended to
\* failed_commands (chart.py 133-146, 186-198, 282-294)
ExtReturn ==
    /\ ext.at = "running"
    /\ CallResult(ext.w, ext.b) \in {"stdout", "None"}
    /\ ext' = [ext EXCEPT !.at = "idle",
                 !.failed_commands = IF CallResult(ext.w, ext.b) = "None" /\ ext.w # "get_login_password"
                                     THEN @ + 1 ELSE @,
                 !.log = Append(@, [w |-> ext.w, b |-> ext.b,
                                    result |-> CallResult(ext.w, ext.b)])]
    /\ UNCHANGED << pushVars, auxExt >>

\* chart.py 543, 564: check=True turns a non-zero status into an exception
\* that leaves the login
ExtRaise ==
    /\ ext.at = "running"
    /\ CallResult(ext.w, ext.b) \in {"CalledProcessError", "FileNotFoundError"}
    /\ ext' = [ext EXCEPT !.at = "raised",
                 !.log = Append(@, [w |-> ext.w, b |-> ext.b,
                                    result |-> CallResult(ext.w, ext.b)])]
    /\ UNCHANGED << pushVars, auxExt >>

\* without a timeout subprocess.run waits for a process that does not end
ExtWait ==
    /\ ext.at = "running"
    /\ CallResult(ext.w, ext.b) = "blocked"
    /\ ext' = [ext EXCEPT !.at = "blocked"]
    /\ UNCHANGED << pushVars, auxExt >>

ExtNext ==
    \/ ExtStart
    \/ ExtReturn
    \/ ExtRaise
    \/ ExtWait

SpecExternal == ExtInit /\ [][ExtNext]_vars

\* C27: every external call carries a timeout, and a command that does not
\* end in time is a failure of its step: the call returns, nothing is raised
\* and the run is not held up.
C27_EveryCallHasTimeout ==
    /\ ext.at = "running" => ext.timeout # {}
    /\ ext.at # "blocked"
    /\ \A c \in DOMAIN ext.log : ext.log[c].b = "hangs" => ext.log[c].result = "None"

\* ------------------------------------------------------- ecr_cleanup.main
\* the repositories of the account that the model follows
MaxRepos == 2

\* chart.py 1125 and 1203: create_repository(..., tags=[chart-syncer=true])
CreateRepositoryTags == { [Key |-> "chart-syncer", Value |-> "true"] }

\* str(value).lower() for the values of the model
Lower(v) == IF v \in {"true", "True", "TRUE"} THEN "true"
            ELSE IF v \in {"false", "False"} THEN "false"
            ELSE v

\* variant: the value of the tag is not looked at
HasChartSyncerTag_AnyValue(tags, listing) ==
    /\ listing = "ok"
    /\ \E t \in tags : t.Key = "chart-syncer"

\* ecr_cleanup.py 25-36: a tag chart-syncer whose value is "true" in any
\* case; False when the tags cannot be listed
HasChartSyncerTag(tags, listing) ==
    /\ listing = "ok"
    /\ \E t \in tags : t.Key = "chart-syncer" /\ Lower(t.Value) = "true"

\* the repositories an account can hold: created by push_images_to_ecr or
\* push_chart_to_ecr, or by someone else with tags of their own; one record
\* of describe_repositories without a name
Repositories ==
    { [named |-> TRUE, origin |-> o, tags |-> CreateRepositoryTags] :
        o \in {"push_images_to_ecr", "push_chart_to_ecr"} }
    \cup { [named |-> TRUE, origin |-> "other", tags |-> t] :
             t \in { {}, {[Key |-> "chart-syncer", Value |-> "True"]},
                     {[Key |-> "chart-syncer", Value |-> "false"]},
                     {[Key |-> "team", Value |-> "true"]} } }
    \cup { [named |-> FALSE, origin |-> "other", tags |-> CreateRepositoryTags] }

auxClean == << nrm, gci, plf, dgf, ovl, chf, ext, run, ath, pul >>

CleanInit ==
    /\ cln \in { [fn |-> "ecr_cleanup.main", at |-> "session", all |-> a, dry_run |-> d,
                  repos |-> r, k |-> 1, listing |-> <<>>, candidates |-> <<>>,
                  requested |-> <<>>, deleted |-> <<>>, failed |-> <<>>, exit |-> 0] :
                  a \in BOOLEAN, d \in BOOLEAN,
                  r \in UNION { [1..n -> Repositories] : n \in 0..MaxRepos } }
    /\ nrm = NoCall /\ gci = NoCall /\ plf = NoCall /\ dgf = NoCall /\ ovl = NoCall
    /\ chf = NoCall /\ ext = NoCall /\ run = NoCall /\ ath = NoCall /\ pul = NoCall
    /\ PushIdle

\* lines 98-118: region, caller identity, describe_repositories; without any
\* of them the program exits with status 1
CleanListRepositories ==
    /\ cln.at = "session"
    /\ \E o \in {"ok", "no_region", "identity_error", "list_error"} :
         cln' = IF o = "ok" THEN [cln EXCEPT !.at = "select"]
                ELSE [cln EXCEPT !.at = "exited", !.exit = 1]
    /\ UNCHANGED << pushVars, auxClean >>

\* lines 45-55: the next repository of select_candidates
CleanSelect ==
    /\ cln.at = "select"
    /\ cln.k <= Len(cln.repos)
    /\ \E listing \in {"ok", "ClientError"} :
         LET repo == cln.repos[cln.k]
         IN  cln' = IF ~repo.named THEN [cln EXCEPT !.k = @ + 1, !.listing = Append(@, "none")]
                    ELSE IF cln.all
                    THEN [cln EXCEPT !.k = @ + 1, !.listing = Append(@, "none"),
                                     !.candidates = Append(@, cln.k)]
                    ELSE [cln EXCEPT !.k = @ + 1, !.listing = Append(@, listing),
                            !.candidates = IF HasChartSyncerTag(repo.tags, listing)
                                           THEN Append(@, cln.k) ELSE @]
    /\ UNCHANGED << pushVars, auxClean >>

\* variant: the dry run goes on to the deletions
AfterSelect_IgnoreDryRun(candidates, dry_run) ==
    IF candidates = <<>> THEN "returned" ELSE "delete"

\* lines 125-135: if not candidates: return; if args.dry_run: ... return
AfterSelect(candidates, dry_run) ==
    IF candidates = <<>> \/ dry_run THEN "returned" ELSE "delete"

\* lines 121-135: nothing to do, or a dry run that only lists the candidates
CleanSelected ==
    /\ cln.at = "select"
    /\ cln.k > Len(cln.repos)
    /\ cln' = IF AfterSelect(cln.candidates, cln.dry_run) = "returned"
              THEN [cln EXCEPT !.at = "returned"]
              ELSE [cln EXCEPT !.at = "delete", !.k = 1]
    /\ UNCHANGED << pushVars, auxClean >>

\* lines 66-75: delete_repository(repositoryName=name, force=True) for the
\* next candidate
CleanDelete ==
    /\ cln.at = "delete"
    /\ cln.k <= Len(cln.candidates)
    /\ \E o \in {"ok", "ClientError"} :
         cln' = [cln EXCEPT !.k = @ + 1,
                            !.requested = Append(@, cln.candidates[cln.k]),
                            !.deleted = IF o = "ok" THEN Append(@, cln.candidates[cln.k]) ELSE @,
                            !.failed = IF o = "ok" THEN @ ELSE Append(@, cln.candidates[cln.k])]
    /\ UNCHANGED << pushVars, auxClean >>

\* lines 140-148
CleanSummary ==
    /\ cln.at = "delete"
    /\ cln.k > Len(cln.candidates)
    /\ cln' = [cln EXCEPT !.at = "returned"]
    /\ UNCHANGED << pushVars, auxClean >>

CleanNext ==
    \/ CleanListRepositories
    \/ CleanSelect
    \/ CleanSelected
    \/ CleanDelete
    \/ CleanSummary

SpecCleanup == CleanInit /\ [][CleanNext]_vars

\* the repositories created by push_images_to_ecr and push_chart_to_ecr carry
\* the tag, and are selected once their tags were listed
CreatedAreSelected ==
    \A j \in DOMAIN cln.repos :
        cln.repos[j].origin \in {"push_images_to_ecr", "push_chart_to_ecr"} =>
            /\ [Key |-> "chart-syncer", Value |-> "true"] \in cln.repos[j].tags
            /\ (~cln.all /\ j \in DOMAIN cln.listing /\ cln.listing[j] = "ok")
                 => SeqContains(cln.candidates, j)

Count(seq, x) == Cardinality({ j \in DOMAIN seq : seq[j] = x })

auxPull == << nrm, gci, plf, dgf, ovl, chf, ext, run, ath, cln >>

\* variant: one more retry is granted than retry_count allows
AfterFailedAttempt_OffByOne(att, retries) ==
    IF att + 1 <= retries THEN "sleep" ELSE "record"

\* chart.py 1034-1039: if attempt + 1 < retry_count: sleep, else the image is
\* appended to failed_pull_addon_chart_images
AfterFailedAttempt(att, retries) ==
    IF att + 1 < retries THEN "sleep" ELSE "record"

PullingInit ==
    /\ pul \in { [fn |-> "pulling_chart_images", at |-> "image",
                  public_addon_chart_images |-> [i \in DOMAIN q |-> RefString(q[i])],
                  retry_count |-> r, idx |-> 1, image |-> <<>>, attempt |-> 0,
                  failed_pull_addon_chart_images |-> <<>>, log |-> <<>>, sleeps |-> <<>>] :
                  q \in DistinctSeqs(ImageRefs, NumImages), r \in 1..MaxRetry }
    /\ nrm = NoCall /\ gci = NoCall /\ plf = NoCall /\ dgf = NoCall /\ ovl = NoCall
    /\ chf = NoCall /\ ext = NoCall /\ run = NoCall /\ ath = NoCall /\ cln = NoCall
    /\ PushIdle

\* chart.py 1012-1015: the next image, its host normalised
PulImage ==
    /\ pul.at = "image"
    /\ pul.idx <= Len(pul.public_addon_chart_images)
    /\ pul' = [pul EXCEPT !.image = NormalizeImageHost(pul.public_addon_chart_images[pul.idx]),
                          !.attempt = 0, !.at = "attempt"]
    /\ UNCHANGED << pushVars, auxPull >>

\* chart.py 1016-1039: one attempt: the logins and the pull; a pull that
\* returns False is turned into RuntimeError and handled like an exception
\* of a login
PulAttempt ==
    /\ pul.at = "attempt"
    /\ pul.attempt < pul.retry_count
    /\ \E o \in Outcomes :
         LET logged == [pul EXCEPT !.log = Append(@, [image |-> pul.image,
                                                      attempt |-> pul.attempt, result |-> o])]
         IN  pul' = IF o = "ok"
                    THEN [logged EXCEPT !.idx = @ + 1, !.at = "image"]
                    ELSE IF AfterFailedAttempt(pul.attempt, pul.retry_count) = "sleep"
                    THEN [logged EXCEPT !.at = "sleep"]
                    ELSE [logged EXCEPT
                            !.failed_pull_addon_chart_images = Append(@, pul.image),
                            !.attempt = @ + 1]
    /\ UNCHANGED << pushVars, auxPull >>

\* chart.py 1036: time.sleep(retry_delay), then the next attempt
PulSleep ==
    /\ pul.at = "sleep"
    /\ pul' = [pul EXCEPT !.sleeps = Append(@, [image |-> pul.image, attempt |-> pul.attempt]),
                          !.attempt = @ + 1, !.at = "attempt"]
    /\ UNCHANGED << pushVars, auxPull >>

\* the attempts of the image are used up, the outer loop goes on
PulExhausted ==
    /\ pul.at = "attempt"
    /\ pul.attempt >= pul.retry_count
    /\ pul' = [pul EXCEPT !.idx = @ + 1, !.at = "image"]
    /\ UNCHANGED << pushVars, auxPull >>

\* the loop over the images has ended
PulReturn ==
    /\ pul.at = "image"
    /\ pul.idx > Len(pul.public_addon_chart_images)
    /\ pul' = [pul EXCEPT !.at = "done"]
    /\ UNCHANGED << pushVars, auxPull >>

PullingNext ==
    \/ PulImage
    \/ PulAttempt
    \/ PulSleep
    \/ PulExhausted
    \/ PulReturn

SpecPulling == PullingInit /\ [][PullingNext]_vars

\* the attempts logged for an image
AttemptsOf(image) == SelectSeq(pul.log, LAMBDA e : e.image = image)

C33_FailedOnceAndNeverPushed ==
    pc = "done" =>
        \A i \in 1..NImages :
            LET d == PrivateImage(public_addon_chart_images[i]) IN
            /\ Count(failed_push_addon_chart_images, d) <= 1
            /\ Count(failed_push_addon_chart_images, d) >= 1 =>
                  \A j \in 1..NImages :
                      PrivateImage(public_addon_chart_images[j]) = d => ~pushed[j]

\* C34: distinct source images get distinct destinations, so that the
\* destination an image was pushed to is still held by the registry whatever
\* is pushed or deleted for the other images.
C34_DistinctDestinations ==
    /\ \A i, j \in 1..NImages :
          public_addon_chart_images[i] # public_addon_chart_images[j] =>
              PrivateImage(public_addon_chart_images[i]) #
                  PrivateImage(public_addon_chart_images[j])
    /\ \A i \in 1..NImages :
          pushed[i] => PrivateImage(public_addon_chart_images[i]) \in remote_tags

\* C35: after push_images_to_ecr returns normally, private_addon_chart_images
\* is as long as public_addon_chart_images and its i-th entry is the
\* destination of the i-th public image, for skipped and failed images too;
\* while the call runs it holds the destinations of the images begun so far.
C35_DestinationsAlignByIndex ==
    /\ Len(private_addon_chart_images) <= NImages
    /\ \A i \in DOMAIN private_addon_chart_images :
          private_addon_chart_images[i] = PrivateImage(public_addon_chart_images[i])
    /\ pc = "done" => Len(private_addon_chart_images) = NImages

\* the first image was pushed, the second was skipped for lack of a platform
\* and recorded as failed; both destinations are in the list
C35_Witness ==
    /\ pc = "done"
    /\ NImages = 2 /\ Len(private_addon_chart_images) = 2
    /\ retry_count >= 1 /\ attempt = 0
    /\ pushed[1] /\ ~pushed[2]
    /\ obs.recorded = 1

\* push_images_to_ecr under the assumption that every step that is enabled
\* is eventually taken (each external command returns)
SpecPushLive == Init /\ [][Next]_vars /\ WF_vars(Next)

\* C36: per image at most retry_count direct pushes and at most
\* retry_count + 2 invocations of _recover_push_no_platform; retry_delay is
\* waited only between two consecutive attempts, never after a success and
\* never after the last attempt; the attempt loop of an image always ends.
C36_PushLoopBounded ==
    /\ [](/\ obs.pushes <= retry_count
          /\ obs.recs <= retry_count + 2
          /\ obs.waits <= attempt
          /\ attempt <= retry_count
          /\ obs.waits >= 1 => obs.waits < retry_count
          /\ ~obs.waitAfterOk
          /\ ~obs.waitAtLast)
    /\ (pc = "loop") ~> (pc = "next")

\* with two attempts: a wait after the first, and retry_count + 2 recoveries
\* before the image is recorded as failed
C36_Witness ==
    /\ pc = "next"
    /\ retry_count = 2
    /\ obs.pushes = 2 /\ obs.recs = 4 /\ obs.waits = 1
    /\ obs.recorded = 1

\* C40: an image for which no concrete platform can be obtained (the re-pull
\* returns False, or the image still reports none after it) is recorded
\* once in failed_push_addon_chart_images and gets no docker tag, no push,
\* no repository check or creation and no remote tag deletion: the loop goes
\* straight on to the next image.
C40_NoPlatformImageSkipped ==
    obs.noPlatform =>
        /\ pc \in {"next", "image", "done"}
        /\ obs.recorded = 1
        /\ SeqContains(failed_push_addon_chart_images, private_addon_chart_images[idx - (IF pc = "next" THEN 0 ELSE 1)])
        /\ ~obs.anyOp /\ ~obs.repoCall
        /\ obs.pushes = 0 /\ obs.recs = 0 /\ obs.dels = 0
        /\ ~obs.pushOk

\* the second image was skipped for lack of a platform after the first had
\* been pushed
C40_Witness ==
    /\ pc = "next" /\ idx = 2
    /\ obs.noPlatform
    /\ pushed[1]
    /\ Len(failed_push_addon_chart_images) = 1

\* the overlay in which a pair that raises is left out and every other pair
\* is processed
RECURSIVE PerPairLoop(_, _, _, _)
PerPairLoop(content, mapping, i, st) ==
    IF i > Len(mapping.keys) THEN st
    ELSE PerPairLoop(content, mapping, i + 1,
                     FindImages(content, mapping.keys[i], mapping.vals[i],
                                [st EXCEPT !.err = "none"], <<>>))

\* C37: in extract_chart_values_image a pair that cannot be processed (its
\* destination does not split into repo:tag, or it matches at the top level)
\* affects only that pair: the overlay returned holds what every other pair,
\* before or after it, contributes.
C37_FailingPairIsIsolated ==
    ovl.fn = "extract_chart_values_image" /\ ovl.at = "done" =>
        ovl.st.cv = PerPairLoop(ovl.content, ovl.mapping, 1, WalkStart).cv

\* a document refers to a source when one of its strings contains the
\* source repository or one of its dicts composes to it from split fields
Refers(content, pub) ==
    \/ \E l \in LeavesOf(content, <<>>) : Contains(l.s, PublicImageRepo(pub))
    \/ \E n \in NodesOf(content, <<>>) :
          SplitMatches(n.node, pub) \/ FlatMatches(n.node, pub)

C39_AuthenticatedOnlyAfterSuccess ==
    ath.fn = "main" /\ ath.at = "chart" =>
        \A host \in RegistryHosts :
            AuthFlag(ath.hc, host) \/ host \in ath.skipped =>
                \E n \in DOMAIN ath.logins :
                    /\ ath.logins[n].chart = ath.i
                    /\ ath.logins[n].host = host
                    /\ ath.logins[n].result = "ok"

====
